---- MODULE Spec2Model ----
(***************************************************************************)
(* Model of the graph layout optimizer: ForceDirectedLayout (layout and    *)
(* metric engine) and GraphOptimizer (orchestration).                      *)
(*                                                                         *)
(* Numbers.  The program computes on IEEE doubles.  A number is modelled   *)
(* as a record [k, v]: k = "fin" for the finite value v / Unit (fixed      *)
(* point, exact on the grid the model draws its inputs from), and          *)
(* k = "nan" / "pinf" / "ninf" for NaN, +Infinity and -Infinity.           *)
(* Products of two coordinates are in 1/Unit^2; only their sign and their  *)
(* order are ever used.  A square root is kept symbolically by its         *)
(* radicand.                                                               *)
(***************************************************************************)
EXTENDS Integers, Sequences, FiniteSets, TLC

\* Fixed-point scale: the coordinate 1.0 is the integer Unit.
Unit == 2

Fin(v) == [k |-> "fin", v |-> v]
NaN == [k |-> "nan", v |-> 0]
PInf == [k |-> "pinf", v |-> 0]
NInf == [k |-> "ninf", v |-> 0]
Zero == Fin(0)
One == Fin(Unit)

IsNaN(a) == a.k = "nan"

\* -1, 0 or 1 for a number that is not NaN
Sign(a) ==
  IF a.k = "pinf" THEN 1
  ELSE IF a.k = "ninf" THEN -1
  ELSE IF a.v > 0 THEN 1 ELSE IF a.v < 0 THEN -1 ELSE 0

Neg(a) ==
  IF a.k = "pinf" THEN NInf
  ELSE IF a.k = "ninf" THEN PInf
  ELSE IF a.k = "nan" THEN NaN
  ELSE Fin(0 - a.v)

Add(a, b) ==
  IF IsNaN(a) \/ IsNaN(b) THEN NaN
  ELSE IF a.k # "fin" THEN (IF b.k # "fin" /\ b.k # a.k THEN NaN ELSE a)
  ELSE IF b.k # "fin" THEN b
  ELSE Fin(a.v + b.v)

Sub(a, b) == Add(a, Neg(b))

Mul(a, b) ==
  IF IsNaN(a) \/ IsNaN(b) THEN NaN
  ELSE IF a.k = "fin" /\ b.k = "fin" THEN Fin(a.v * b.v)
  ELSE IF Sign(a) * Sign(b) = 0 THEN NaN
  ELSE IF Sign(a) * Sign(b) > 0 THEN PInf ELSE NInf

Abs(n) == IF n < 0 THEN 0 - n ELSE n

\* a / b for a coordinate a and a plain number b (b.v is not scaled).
\* The quotient is exact for every pair the model divides.
Div(a, b) ==
  IF IsNaN(a) \/ IsNaN(b) THEN NaN
  ELSE IF a.k # "fin" THEN
    (IF b.k # "fin" THEN NaN
     ELSE IF Sign(a) * Sign(b) >= 0 THEN (IF Sign(a) > 0 THEN PInf ELSE NInf)
     ELSE (IF Sign(a) > 0 THEN NInf ELSE PInf))
  ELSE IF b.k # "fin" THEN Zero
  ELSE IF b.v = 0 THEN
    (IF a.v = 0 THEN NaN ELSE IF a.v > 0 THEN PInf ELSE NInf)
  ELSE Fin(Sign(a) * Sign(b) * (Abs(a.v) \div Abs(b.v)))

\* a < b; false when either side is NaN
Lt(a, b) ==
  /\ ~IsNaN(a)
  /\ ~IsNaN(b)
  /\ \/ a.k = "ninf" /\ b.k # "ninf"
     \/ b.k = "pinf" /\ a.k # "pinf"
     \/ a.k = "fin" /\ b.k = "fin" /\ a.v < b.v

\* a <= b; false when either side is NaN
Le(a, b) == ~IsNaN(a) /\ ~IsNaN(b) /\ (Lt(a, b) \/ a = b)

\* a >= b; false when either side is NaN
Ge(a, b) == Le(b, a)

MathMin(a, b) ==
  IF IsNaN(a) \/ IsNaN(b) THEN NaN ELSE IF Lt(b, a) THEN b ELSE a

MathMax(a, b) ==
  IF IsNaN(a) \/ IsNaN(b) THEN NaN ELSE IF Lt(a, b) THEN b ELSE a

(***************************************************************************)
(* Data model: Node = {id, x, y}, Edge = {source, target}.                 *)
(***************************************************************************)
Node(id, x, y) == [id |-> id, x |-> x, y |-> y]
Edge(s, t) == [source |-> s, target |-> t]

\* the ids of a node list, in list order
IdsOfNodes(nodes) == [k \in 1..Len(nodes) |-> nodes[k].id]

\* new Map(nodes.map(node => [node.id, node])): has(id)
MapHas(nodes, id) == \E k \in 1..Len(nodes) : nodes[k].id = id

\* new Map(nodes.map(node => [node.id, node])): get(id); a later entry
\* with the same key replaces an earlier one
MapGet(nodes, id) ==
  LET ks == {k \in 1..Len(nodes) : nodes[k].id = id}
  IN nodes[CHOOSE k \in ks : \A m \in ks : m <= k]

(***************************************************************************)
(* Metric engine                                                           *)
(***************************************************************************)
\* det = (px - qx) * (sy - qy) - (py - qy) * (sx - qx)
Det(p, q, s) ==
  Sub(Mul(Sub(p.x, q.x), Sub(s.y, q.y)), Mul(Sub(p.y, q.y), Sub(s.x, q.x)))

\* a plausible slip: only the first segment's straddling is tested
DoEdgesCrossOneSided(node1, node2, node3, node4) ==
  IF node1.id = node3.id \/ node1.id = node4.id
     \/ node2.id = node3.id \/ node2.id = node4.id
  THEN FALSE
  ELSE Lt(Mul(Det(node1, node3, node4), Det(node2, node3, node4)), Zero)

\* a plausible slip: touching counts (<= 0 instead of < 0)
DoEdgesCrossNonStrict(node1, node2, node3, node4) ==
  IF node1.id = node3.id \/ node1.id = node4.id
     \/ node2.id = node3.id \/ node2.id = node4.id
  THEN FALSE
  ELSE /\ Le(Mul(Det(node1, node3, node4), Det(node2, node3, node4)), Zero)
       /\ Le(Mul(Det(node3, node1, node2), Det(node4, node1, node2)), Zero)

\* a plausible slip: the shared-endpoint test returns the wrong constant
DoEdgesCrossSharedCounts(node1, node2, node3, node4) ==
  IF node1.id = node3.id \/ node1.id = node4.id
     \/ node2.id = node3.id \/ node2.id = node4.id
  THEN TRUE
  ELSE /\ Lt(Mul(Det(node1, node3, node4), Det(node2, node3, node4)), Zero)
       /\ Lt(Mul(Det(node3, node1, node2), Det(node4, node1, node2)), Zero)

\* a plausible slip: det2 copied from det1 without changing node1 to node2
DoEdgesCrossCopyPaste(node1, node2, node3, node4) ==
  IF node1.id = node3.id \/ node1.id = node4.id
     \/ node2.id = node3.id \/ node2.id = node4.id
  THEN FALSE
  ELSE /\ Lt(Mul(Det(node1, node3, node4), Det(node1, node3, node4)), Zero)
       /\ Lt(Mul(Det(node3, node1, node2), Det(node4, node1, node2)), Zero)

DoEdgesCross(node1, node2, node3, node4) ==
  IF node1.id = node3.id \/ node1.id = node4.id
     \/ node2.id = node3.id \/ node2.id = node4.id
  THEN FALSE
  ELSE LET det1 == Det(node1, node3, node4)
           det2 == Det(node2, node3, node4)
           det3 == Det(node3, node1, node2)
           det4 == Det(node4, node1, node2)
       IN Lt(Mul(det1, det2), Zero) /\ Lt(Mul(det3, det4), Zero)

\* a plausible slip: the inner loop starts at 0 instead of i + 1, so every
\* pair is visited in both orders
CrossingPairsBothOrders(nodes, edges) ==
  {p \in (1..Len(edges)) \X (1..Len(edges)) :
     /\ p[1] # p[2]
     /\ MapHas(nodes, edges[p[1]].source)
     /\ MapHas(nodes, edges[p[1]].target)
     /\ MapHas(nodes, edges[p[2]].source)
     /\ MapHas(nodes, edges[p[2]].target)
     /\ DoEdgesCross(MapGet(nodes, edges[p[1]].source),
                     MapGet(nodes, edges[p[1]].target),
                     MapGet(nodes, edges[p[2]].source),
                     MapGet(nodes, edges[p[2]].target))}

\* a plausible slip: an endpoint the map does not have is taken to be a
\* vertex at the origin instead of making the pair be skipped
CrossingPairsDefaulting(nodes, edges) ==
  LET Get(id) == IF MapHas(nodes, id) THEN MapGet(nodes, id)
                 ELSE Node(id, Zero, Zero)
  IN {p \in (1..Len(edges)) \X (1..Len(edges)) :
        /\ p[1] < p[2]
        /\ DoEdgesCross(Get(edges[p[1]].source), Get(edges[p[1]].target),
                        Get(edges[p[2]].source), Get(edges[p[2]].target))}

\* the edge pairs (i, j), i < j, the double loop counts
CrossingPairs(nodes, edges) ==
  {p \in (1..Len(edges)) \X (1..Len(edges)) :
     /\ p[1] < p[2]
     /\ MapHas(nodes, edges[p[1]].source)
     /\ MapHas(nodes, edges[p[1]].target)
     /\ MapHas(nodes, edges[p[2]].source)
     /\ MapHas(nodes, edges[p[2]].target)
     /\ DoEdgesCross(MapGet(nodes, edges[p[1]].source),
                     MapGet(nodes, edges[p[1]].target),
                     MapGet(nodes, edges[p[2]].source),
                     MapGet(nodes, edges[p[2]].target))}

CalculateEdgeCrossings(nodes, edges) == Cardinality(CrossingPairs(nodes, edges))

\* Math.pow(a.x - b.x, 2) + Math.pow(a.y - b.y, 2), the radicand of a distance
DistSq(a, b) ==
  Add(Mul(Sub(a.x, b.x), Sub(a.x, b.x)), Mul(Sub(a.y, b.y), Sub(a.y, b.y)))

\* the edges whose source and target are both keys of the node map
ResolvedEdges(nodes, edges) ==
  SelectSeq(edges, LAMBDA e : MapHas(nodes, e.source) /\ MapHas(nodes, e.target))

\* totalDistance / edgeCount, where totalDistance is the sum, in this order,
\* of the square roots of the radicands: NaN when a radicand is NaN and for
\* 0 / 0, otherwise the mean of the roots, kept symbolically
Quotient(radicands, edgeCount) ==
  IF \E k \in 1..Len(radicands) : IsNaN(radicands[k])
  THEN [k |-> "nan", v |-> 0, edgeCount |-> edgeCount, radicands |-> radicands]
  ELSE IF edgeCount = 0
  THEN [k |-> IF \A k \in 1..Len(radicands) : radicands[k] = Zero
               THEN "nan" ELSE "pinf",
        v |-> 0, edgeCount |-> edgeCount, radicands |-> radicands]
  ELSE [k |-> "mean", v |-> 0, edgeCount |-> edgeCount, radicands |-> radicands]

\* the literal 0 of the conditional's other branch
AverageZero == [k |-> "fin", v |-> 0, edgeCount |-> 0, radicands |-> <<>>]

\* the radicands of the distances added to totalDistance, in order
Radicands(nodes, edges) ==
  LET resolved == ResolvedEdges(nodes, edges)
  IN [k \in 1..Len(resolved) |->
        DistSq(MapGet(nodes, resolved[k].source),
               MapGet(nodes, resolved[k].target))]

\* a plausible slip: the division is not guarded
CalculateAverageDistanceUnguarded(nodes, edges) ==
  Quotient(Radicands(nodes, edges), Len(ResolvedEdges(nodes, edges)))

\* a plausible slip: the denominator is edges.length
CalculateAverageDistanceOverAll(nodes, edges) ==
  IF Len(edges) > 0
  THEN Quotient(Radicands(nodes, edges), Len(edges))
  ELSE AverageZero

\* a plausible slip: an edge from a vertex to itself is skipped, so that it
\* enters neither the sum nor the count
CalculateAverageDistanceSkipLoops(nodes, edges) ==
  LET proper == SelectSeq(edges, LAMBDA e : e.source # e.target)
      edgeCount == Len(ResolvedEdges(nodes, proper))
  IN IF edgeCount > 0
     THEN Quotient(Radicands(nodes, proper), edgeCount)
     ELSE AverageZero

\* edgeCount > 0 ? totalDistance / edgeCount : 0
CalculateAverageDistance(nodes, edges) ==
  LET edgeCount == Len(ResolvedEdges(nodes, edges))
  IN IF edgeCount > 0
     THEN Quotient(Radicands(nodes, edges), edgeCount)
     ELSE AverageZero

\* a plausible slip: only vertices with different ids are compared
CalculateMinimumNodeDistanceDistinctIds(nodes) ==
  LET ds == {DistSq(nodes[p[1]], nodes[p[2]]) :
               p \in {q \in (1..Len(nodes)) \X (1..Len(nodes)) :
                        q[1] < q[2] /\ nodes[q[1]].id # nodes[q[2]].id}}
  IN IF ds = {} THEN PInf
     ELSE IF NaN \in ds THEN NaN
     ELSE CHOOSE d \in ds : \A e \in ds : Le(d, e)

\* The value returned is the square root of this radicand (Infinity for PInf,
\* NaN for NaN): Math.min over the pairs i < j, starting from Infinity.
CalculateMinimumNodeDistance(nodes) ==
  LET ds == {DistSq(nodes[p[1]], nodes[p[2]]) :
               p \in {q \in (1..Len(nodes)) \X (1..Len(nodes)) : q[1] < q[2]}}
  IN IF ds = {} THEN PInf
     ELSE IF NaN \in ds THEN NaN
     ELSE CHOOSE d \in ds : \A e \in ds : Le(d, e)

\* a plausible slip: the bounds are exclusive
ValidateCoordinatesExclusive(nodes) ==
  \A k \in 1..Len(nodes) :
    /\ Lt(Zero, nodes[k].x) /\ Lt(nodes[k].x, One)
    /\ Lt(Zero, nodes[k].y) /\ Lt(nodes[k].y, One)

ValidateCoordinates(nodes) ==
  \A k \in 1..Len(nodes) :
    /\ Ge(nodes[k].x, Zero) /\ Le(nodes[k].x, One)
    /\ Ge(nodes[k].y, Zero) /\ Le(nodes[k].y, One)

(***************************************************************************)
(* State.  Objects live in two heaps so that sharing is visible: a Node[]   *)
(* or Edge[] is a sequence of references (indices) into them.               *)
(***************************************************************************)
VARIABLES
  heap,       \* node objects: [id, x, y, d3]; d3 = the object has been
              \* initialised by d3.forceSimulation (index, vx, vy set)
  eheap,      \* edge objects: [source, target, linked]; linked = d3.forceLink
              \* has replaced the two ids by node objects and set index
  graphData,  \* the caller's GraphData: [nodes, edges], arrays of references
  input,      \* the caller's record of what it passed, by value
  options,    \* ForceDirectedLayout.options: [width, height, iterations,
              \* alpha]; alpha stands for alpha and alphaDecay together: the
              \* number of ticks after which the simulation's alpha is below
              \* d3's alphaMin
  pc,         \* "idle" | "ticking" | "done" | "threw" | "validated" | "checked"
              \* | "compared" | "formatted"
              \* ("new" in the construction harness: nothing constructed yet)
  simNodes,   \* optimizeLayout's nodes array (references)
  links,      \* optimizeLayout's links array (references)
  i,          \* optimizeLayout's loop counter
  orig,       \* optimizeGraph's original* locals
  result,     \* the OptimizationResult optimizeGraph returned
  valid,      \* the value validateCoordinates returned
  alpha,      \* the simulation's alpha: the ticks left until it is below
              \* alphaMin (0: it is below)
  timer,      \* the simulation's internal timer is active
  ticks,      \* the number of times the simulation has been ticked
  mNodes,     \* metric harness: the caller's vertex list (Node[], by value)
  mEdges,     \* metric harness: the edge list of the call that has returned
  mpc,        \* metric harness: "idle" | "returned" (calculateEdgeCrossings)
              \* | "averaged" | "measured" | "vetted" (the other functions)
  crossings,  \* metric harness: the value calculateEdgeCrossings returned
  mret,       \* metric harness: the value another function returned
  layouts,    \* call harness: the options of the GraphOptimizer instances
  calls,      \* call harness: the optimizeGraph calls made so far, in order:
              \* [inst, options, graph, sim, result]
  d3memo,     \* call harness: the simulation runs d3 has made so far:
              \* [key, sim]; d3 computes a run from its inputs alone
  report,     \* call harness: what formatResults returned, with the index
              \* of the call whose result it was given
  exported,   \* call harness: what exportOptimizedLayout returned, with the
              \* index of the call whose result it serialised
  passed,     \* construction harness: the layout options argument of the
              \* constructor call: [given, fields]; given = FALSE: no argument
  via,        \* construction harness: the class that was constructed
  layoutOptions, \* construction harness: ForceDirectedLayout.options, all
              \* nine fields
  comparison, \* what compareLayouts returned, with the layouts it was given
  summary,    \* what formatResults(result) returned
  app,        \* app harness: the mounted component, "DemoApp" or
              \* "MalawiGraphApp"
  ui,         \* app harness: the component's React state
  runs,       \* app harness: [effects, started, finished, last]: how often
              \* the mount effect has run, how many optimizeGraph runs have
              \* started and ended, and how the last one ended
  visualizerOptions, \* GraphOptimizer.visualizerOptions
  visualizer, \* GraphOptimizer.visualizer: 0 (undefined) or a reference to
              \* one of the GraphVisualizer objects
  visualizers, \* the GraphVisualizer objects created so far: [container,
              \* options, svg], svg: what the object's svg element shows
  renders,    \* visualizer harness: the options of the render calls so far
  vlast,      \* visualizer harness: the last call made: [n, op, value]
  rIn,        \* rounding harness: the vertex passed to optimizeLayout, its
              \* coordinates doubles as the machine holds them: [s, m, e]
  rOpts,      \* rounding harness: ForceDirectedLayout.options: [width,
              \* height, iterations]
  rOut,       \* rounding harness: the vertex optimizeLayout returned
  rpc         \* rounding harness: "idle" | "returned"

lvars == <<heap, eheap, graphData, input, options, pc, simNodes, links, i,
           orig, result, valid, alpha, timer, ticks>>
mvars == <<mNodes, mEdges, mpc, crossings, mret>>
ovars == <<passed, via, layoutOptions>>
kvars == <<comparison, summary>>
avars == <<app, ui, runs>>
vvars == <<visualizerOptions, visualizer, visualizers, renders, vlast>>
rvars == <<rIn, rOpts, rOut, rpc>>
cvars == <<layouts, calls, d3memo, report, exported, ovars, kvars, avars, vvars, rvars>>
vars == <<lvars, mvars, cvars>>

(***************************************************************************)
(* Layout engine and optimizer                                             *)
(***************************************************************************)
HeapNode(id, x, y, d3) == [id |-> id, x |-> x, y |-> y, d3 |-> d3]
HeapEdge(s, t, linked) == [source |-> s, target |-> t, linked |-> linked]

\* the objects an array of references points to
Deref(h, refs) == [k \in 1..Len(refs) |-> h[refs[k]]]

\* the {source, target} the metric functions read from an Edge[]; once d3 has
\* replaced the ids of an edge object by node objects they are no map keys
EdgeValues(eh, refs) ==
  [k \in 1..Len(refs) |->
     IF eh[refs[k]].linked THEN Edge("[object]", "[object]")
     ELSE Edge(eh[refs[k]].source, eh[refs[k]].target)]

\* n fresh references after the last object of heap h
Fresh(h, n) == [k \in 1..n |-> Len(h) + k]

\* graphData.nodes.map(node => ({id, x: node.x * width, y: node.y * height}))
ScaledCopies(nodes, opts) ==
  [k \in 1..Len(nodes) |->
     HeapNode(nodes[k].id,
              Mul(nodes[k].x, Fin(opts.width)),
              Mul(nodes[k].y, Fin(opts.height)),
              FALSE)]

\* graphData.edges.map(edge => ({source: edge.source, target: edge.target}))
LinkCopies(edges) ==
  [k \in 1..Len(edges) |-> HeapEdge(edges[k].source, edges[k].target, FALSE)]

\* a plausible slip: the simulation is given graphData.nodes itself
SimNodeRefsShared(h, nodeRefs) == nodeRefs

\* the array handed to d3.forceSimulation: the fresh copies
SimNodeRefs(h, nodeRefs) == Fresh(h, Len(nodeRefs))

\* a plausible slip: d3.forceLink is given graphData.edges itself
LinkRefsShared(eh, edgeRefs) == edgeRefs

\* the array handed to d3.forceLink: the fresh copies
LinkRefs(eh, edgeRefs) == Fresh(eh, Len(edgeRefs))

\* Math.max(0, Math.min(1, v))
ClampUnit(v) == MathMax(Zero, MathMin(One, v))

\* a plausible slip: vertices that left the workspace are dropped
ResultNodesFiltered(nodes, opts) ==
  LET kept == SelectSeq(nodes, LAMBDA n :
                /\ Ge(n.x, Zero) /\ Le(n.x, Mul(One, Fin(opts.width)))
                /\ Ge(n.y, Zero) /\ Le(n.y, Mul(One, Fin(opts.height))))
  IN [k \in 1..Len(kept) |->
        HeapNode(kept[k].id,
                 ClampUnit(Div(kept[k].x, Fin(opts.width))),
                 ClampUnit(Div(kept[k].y, Fin(opts.height))),
                 FALSE)]

\* a plausible slip: the drawing is renormalised, shifted as a whole so that
\* its least coordinate on each axis becomes 0
ResultNodesRenormalized(nodes, opts) ==
  LET xs == {nodes[k].x.v : k \in 1..Len(nodes)}
      ys == {nodes[k].y.v : k \in 1..Len(nodes)}
      minX == CHOOSE v \in xs : \A u \in xs : v <= u
      minY == CHOOSE v \in ys : \A u \in ys : v <= u
  IN [k \in 1..Len(nodes) |->
        HeapNode(nodes[k].id,
                 ClampUnit(Div(Fin(nodes[k].x.v - minX), Fin(opts.width))),
                 ClampUnit(Div(Fin(nodes[k].y.v - minY), Fin(opts.height))),
                 FALSE)]

\* nodes.map(node => ({id, x: clamp(node.x / width), y: clamp(node.y / height)}))
ResultNodes(nodes, opts) ==
  [k \in 1..Len(nodes) |->
     HeapNode(nodes[k].id,
              ClampUnit(Div(nodes[k].x, Fin(opts.width))),
              ClampUnit(Div(nodes[k].y, Fin(opts.height))),
              FALSE)]

\* optimizeGraph's three original* locals
OriginalMetrics(graphNodes, graphEdges) ==
  [crossings |-> CalculateEdgeCrossings(graphNodes, graphEdges),
   averageDistance |-> CalculateAverageDistance(graphNodes, graphEdges),
   minDistance |-> CalculateMinimumNodeDistance(graphNodes)]

\* a plausible slip: the optimized metrics are computed on graphData.nodes
OptimizedMetricsOfInput(graphNodes, graphEdges, optimizedNodes) ==
  [crossings |-> CalculateEdgeCrossings(graphNodes, graphEdges),
   averageDistance |-> CalculateAverageDistance(graphNodes, graphEdges),
   minDistance |-> CalculateMinimumNodeDistance(graphNodes)]

\* optimizeGraph's three optimized* locals
OptimizedMetrics(graphNodes, graphEdges, optimizedNodes) ==
  [crossings |-> CalculateEdgeCrossings(optimizedNodes, graphEdges),
   averageDistance |-> CalculateAverageDistance(optimizedNodes, graphEdges),
   minDistance |-> CalculateMinimumNodeDistance(optimizedNodes)]

NoMetrics == [crossings |-> 0,
              averageDistance |-> AverageZero,
              minDistance |-> PInf]

NoResult ==
  [originalNodes |-> <<>>, optimizedNodes |-> <<>>, edges |-> <<>>,
   metrics |-> [originalCrossings |-> 0, optimizedCrossings |-> 0,
                originalAverageDistance |-> NoMetrics.averageDistance,
                optimizedAverageDistance |-> NoMetrics.averageDistance,
                originalMinDistance |-> PInf, optimizedMinDistance |-> PInf]]

\* Number.prototype.toFixed(4): the decimal digits of a number, the words
\* NaN and Infinity otherwise
ToFixed4(x) ==
  IF x.k = "nan" THEN [text |-> "NaN", of |-> Zero]
  ELSE IF x.k = "pinf" THEN [text |-> "Infinity", of |-> Zero]
  ELSE IF x.k = "ninf" THEN [text |-> "-Infinity", of |-> Zero]
  ELSE [text |-> "digits", of |-> x]

\* JSON.stringify of a number: the number, null for NaN and the infinities
JsonNumber(x) ==
  IF x.k \in {"nan", "pinf", "ninf"} THEN [json |-> "null", of |-> Zero]
  ELSE [json |-> "number", of |-> x]

\* b - a of two distances: NaN when either is NaN and for Infinity -
\* Infinity, an infinity when one of them is +Infinity, 0 for a number
\* subtracted from itself, otherwise kept symbolically
Change(a, b) ==
  IF a.k = "nan" \/ b.k = "nan" THEN NaN
  ELSE IF a.k = "pinf" /\ b.k = "pinf" THEN NaN
  ELSE IF b.k = "pinf" THEN PInf
  ELSE IF a.k = "pinf" THEN NInf
  ELSE IF a = b THEN Zero
  ELSE [k |-> "diff", v |-> 0, minuend |-> b, subtrahend |-> a]

\* n / d rounded to the nearest integer (d > 0)
RoundDiv(n, d) ==
  IF n >= 0 THEN (2 * n + d) \div (2 * d) ELSE 0 - ((2 * (0 - n) + d) \div (2 * d))

\* the literal '0' of the conditional's other branch
PercentZero == [text |-> "0", tenths |-> 0]

\* (crossingReduction / originalCrossings * 100).toFixed(1), in tenths of a
\* percent; the words NaN and Infinity for a division by 0
PercentFixed1(crossingReduction, originalCrossings) ==
  IF originalCrossings = 0
  THEN [text |-> IF crossingReduction = 0 THEN "NaN"
                 ELSE IF crossingReduction > 0 THEN "Infinity" ELSE "-Infinity",
        tenths |-> 0]
  ELSE [text |-> "digits",
        tenths |-> RoundDiv(crossingReduction * 1000, originalCrossings)]


\* a plausible slip: the percentage is computed without the guard
FormatResultsUnguarded(r) ==
  [originalCrossings |-> r.metrics.originalCrossings,
   optimizedCrossings |-> r.metrics.optimizedCrossings,
   reduction |-> r.metrics.originalCrossings - r.metrics.optimizedCrossings,
   percent |-> PercentFixed1(r.metrics.originalCrossings - r.metrics.optimizedCrossings,
                             r.metrics.originalCrossings),
   originalAverageDistance |-> ToFixed4(r.metrics.originalAverageDistance),
   optimizedAverageDistance |-> ToFixed4(r.metrics.optimizedAverageDistance),
   averageChange |-> ToFixed4(Change(r.metrics.originalAverageDistance,
                                     r.metrics.optimizedAverageDistance)),
   originalMinDistance |-> ToFixed4(r.metrics.originalMinDistance),
   optimizedMinDistance |-> ToFixed4(r.metrics.optimizedMinDistance),
   minChange |-> ToFixed4(Change(r.metrics.originalMinDistance,
                                 r.metrics.optimizedMinDistance)),
   validation |-> IF ValidateCoordinates(r.optimizedNodes) THEN "PASS" ELSE "FAIL"]

\* the lines of formatResults(result)
FormatResults(r) ==
  [originalCrossings |-> r.metrics.originalCrossings,
   optimizedCrossings |-> r.metrics.optimizedCrossings,
   reduction |-> r.metrics.originalCrossings - r.metrics.optimizedCrossings,
   percent |-> IF r.metrics.originalCrossings > 0
               THEN PercentFixed1(r.metrics.originalCrossings
                                    - r.metrics.optimizedCrossings,
                                  r.metrics.originalCrossings)
               ELSE PercentZero,
   originalAverageDistance |-> ToFixed4(r.metrics.originalAverageDistance),
   optimizedAverageDistance |-> ToFixed4(r.metrics.optimizedAverageDistance),
   averageChange |-> ToFixed4(Change(r.metrics.originalAverageDistance,
                                     r.metrics.optimizedAverageDistance)),
   originalMinDistance |-> ToFixed4(r.metrics.originalMinDistance),
   optimizedMinDistance |-> ToFixed4(r.metrics.optimizedMinDistance),
   minChange |-> ToFixed4(Change(r.metrics.originalMinDistance,
                                 r.metrics.optimizedMinDistance)),
   validation |-> IF ValidateCoordinates(r.optimizedNodes) THEN "PASS" ELSE "FAIL"]

\* a plausible slip: the two operands of a difference are exchanged
CompareLayoutsSwapped(originalNodes, optimizedNodes, edges) ==
  [crossingReduction |-> CalculateEdgeCrossings(optimizedNodes, edges)
                         - CalculateEdgeCrossings(originalNodes, edges),
   distanceImprovement |-> Change(CalculateAverageDistance(originalNodes, edges),
                                  CalculateAverageDistance(optimizedNodes, edges)),
   minDistanceImprovement |-> Change(CalculateMinimumNodeDistance(originalNodes),
                                     CalculateMinimumNodeDistance(optimizedNodes))]

\* compareLayouts(originalNodes, optimizedNodes, edges)
CompareLayouts(originalNodes, optimizedNodes, edges) ==
  [crossingReduction |-> CalculateEdgeCrossings(originalNodes, edges)
                         - CalculateEdgeCrossings(optimizedNodes, edges),
   distanceImprovement |-> Change(CalculateAverageDistance(originalNodes, edges),
                                  CalculateAverageDistance(optimizedNodes, edges)),
   minDistanceImprovement |-> Change(CalculateMinimumNodeDistance(originalNodes),
                                     CalculateMinimumNodeDistance(optimizedNodes))]

(***************************************************************************)
(* Inputs of the layout harness                                            *)
(***************************************************************************)
\* vertex ids of the layout harness, in list order
LIds == <<"A", "B">>

\* input positions: outside the unit square on both axes, on its boundary,
\* strictly inside
InPos == {<<-1, Unit + 1>>, <<0, Unit>>, <<1, 1>>}

\* edge lists: none, or the edge A-B listed in both directions (dangling when
\* the graph has fewer than two vertices)
LEdgeLists == {<<>>, <<HeapEdge("A", "B", FALSE), HeapEdge("B", "A", FALSE)>>}

\* the graphs of zero, one and two vertices placed anywhere in InPos
SmallGraphs ==
  UNION {{[nodes |-> [k \in 1..n |->
                        HeapNode(LIds[k], Fin(pos[k][1]), Fin(pos[k][2]), FALSE)],
           edges |-> edges] :
            pos \in [1..n -> InPos], edges \in LEdgeLists} : n \in 0..Len(LIds)}

\* the unit square A(0,0), B(1,1), C(1,0), D(0,1) with its two diagonals
SquareGraph ==
  [nodes |-> <<HeapNode("A", Zero, Zero, FALSE), HeapNode("B", One, One, FALSE),
               HeapNode("C", One, Zero, FALSE), HeapNode("D", Zero, One, FALSE)>>,
   edges |-> <<HeapEdge("A", "B", FALSE), HeapEdge("C", "D", FALSE)>>]

LGraphs == SmallGraphs \cup {SquareGraph}

Widths == {0, 1, 2}
Heights == {0, 2}

\* largest iteration count
MaxIter == 2

\* the alpha of a simulation that has been given none (d3's defaults need
\* some 300 ticks to fall below alphaMin; the model cuts this short)
DefaultAlpha == 2

\* initial alphas of the layout harness: below alphaMin after one tick, so
\* that a second tick is a tick of a converged simulation
Alphas == {1}

\* The positions a tick of the d3 simulation may leave a vertex at, per axis
\* (d3 is not part of the repository: a tick is any choice of finite
\* positions): below the workspace, at 0, inside it, beyond it.
SimPos == {<<0, 0>>, <<2, 2>>, <<6, -2>>, <<-2, 6>>}

LIdle ==
  /\ heap = <<>>
  /\ eheap = <<>>
  /\ graphData = [nodes |-> <<>>, edges |-> <<>>]
  /\ input = [nodes |-> <<>>, edges |-> <<>>, graphData |-> graphData]
  /\ options = [width |-> 800, height |-> 600, iterations |-> 300,
                alpha |-> 248]
  /\ pc = "idle"
  /\ simNodes = <<>>
  /\ links = <<>>
  /\ i = 0
  /\ orig = NoMetrics
  /\ result = NoResult
  /\ valid = TRUE
  /\ alpha = 0
  /\ timer = FALSE
  /\ ticks = 0

MIdle ==
  /\ mNodes = <<>>
  /\ mEdges = <<>>
  /\ mpc = "idle"
  /\ crossings = 0
  /\ mret = Zero

\* no report made, nothing exported
NoReport == [call |-> 0, text |-> <<>>]
NoExport == [call |-> 0, json |-> <<>>]

\* the names of the fields of LayoutOptions
Fields == {"width", "height", "iterations", "alpha", "alphaDecay",
           "velocityDecay", "chargeStrength", "linkDistance", "linkStrength"}

\* the options of a layout that has not been constructed
NoOptions == [f \in Fields |-> "unset"]

\* a constructor call without a layout options argument
NoArgument == [given |-> FALSE, fields |-> <<>>]

OIdle ==
  /\ passed = NoArgument
  /\ via = "none"
  /\ layoutOptions = NoOptions

\* compareLayouts and formatResults have not been called
NoComparison == [original |-> "none", optimized |-> "none", value |-> <<>>]
NoSummary == <<>>

KIdle ==
  /\ comparison = NoComparison
  /\ summary = NoSummary

\* the React state after the first render: the useState initial values
InitialState ==
  [originalNodes |-> "original", optimizedNodes |-> "empty",
   currentNodes |-> "original", metrics |-> "null", isOptimized |-> FALSE,
   isLoading |-> FALSE, error |-> "null"]

NoRuns == [effects |-> 0, started |-> 0, finished |-> 0, last |-> "none"]

\* no component is mounted
AIdle ==
  /\ app = "none"
  /\ ui = InitialState
  /\ runs = NoRuns

\* no call made on the visualizer side of an optimizer
NoCall == [n |-> 0, op |-> "none", value |-> <<>>]

\* an optimizer constructed without visualizer options, render never called
VIdle ==
  /\ visualizerOptions = <<>>
  /\ visualizer = 0
  /\ visualizers = <<>>
  /\ renders = <<>>
  /\ vlast = NoCall

RIdle ==
  /\ rIn = <<>>
  /\ rOpts = <<>>
  /\ rOut = <<>>
  /\ rpc = "idle"

CIdle ==
  /\ layouts = <<>>
  /\ calls = <<>>
  /\ d3memo = {}
  /\ report = NoReport
  /\ exported = NoExport
  /\ OIdle
  /\ KIdle
  /\ AIdle
  /\ VIdle
  /\ RIdle

\* a GraphOptimizer has been constructed with some options and the caller
\* holds a graph
Init ==
  /\ \E g \in LGraphs :
       /\ heap = g.nodes
       /\ eheap = g.edges
       /\ graphData = [nodes |-> [k \in 1..Len(g.nodes) |-> k],
                       edges |-> [k \in 1..Len(g.edges) |-> k]]
  /\ input = [nodes |-> heap, edges |-> eheap, graphData |-> graphData]
  /\ \E w \in Widths, h \in Heights, n \in 0..MaxIter, a \in Alphas :
       options = [width |-> w, height |-> h, iterations |-> n, alpha |-> a]
  /\ pc = "idle"
  /\ simNodes = <<>>
  /\ links = <<>>
  /\ i = 0
  /\ orig = NoMetrics
  /\ result = NoResult
  /\ valid = TRUE
  /\ alpha = 0
  /\ timer = FALSE
  /\ ticks = 0
  /\ MIdle
  /\ CIdle

\* the links d3.forceLink can resolve: both ids are ids of simulation nodes
Resolves(link, nodes) == MapHas(nodes, link.source) /\ MapHas(nodes, link.target)

\* state of the two heaps once optimizeLayout has built its copies and
\* d3.forceSimulation has initialised the nodes it was given
HeapAfterCopy ==
  LET h1 == heap \o ScaledCopies(Deref(heap, graphData.nodes), options)
      sim == SimNodeRefs(heap, graphData.nodes)
  IN [r \in 1..Len(h1) |->
        IF \E k \in 1..Len(sim) : sim[k] = r
        THEN [h1[r] EXCEPT !.d3 = TRUE] ELSE h1[r]]

\* d3.forceLink initialises the links in order and stops at the first one it
\* cannot resolve
EheapAfterLink(n) ==
  LET e1 == eheap \o LinkCopies(Deref(eheap, graphData.edges))
      ls == LinkRefs(eheap, graphData.edges)
  IN [r \in 1..Len(e1) |->
        IF \E k \in 1..n : ls[k] = r
        THEN [e1[r] EXCEPT !.linked = TRUE] ELSE e1[r]]

\* the simulation nodes d3.forceLink looks the ids up in
SimNodesAtStart == Deref(HeapAfterCopy, SimNodeRefs(heap, graphData.nodes))

\* the links as d3.forceLink reads them
LinksAtStart ==
  Deref(eheap \o LinkCopies(Deref(eheap, graphData.edges)),
        LinkRefs(eheap, graphData.edges))

AllLinksResolve ==
  \A k \in 1..Len(LinksAtStart) : Resolves(LinksAtStart[k], SimNodesAtStart)

\* optimizeGraph(graphData) up to the loop of optimizeLayout: the original
\* metrics, the copies, the simulation and its forces
OptimizeGraphCall ==
  /\ pc = "idle"
  /\ AllLinksResolve
  /\ orig' = OriginalMetrics(Deref(heap, graphData.nodes),
                             EdgeValues(eheap, graphData.edges))
  /\ heap' = HeapAfterCopy
  /\ eheap' = EheapAfterLink(Len(graphData.edges))
  /\ simNodes' = SimNodeRefs(heap, graphData.nodes)
  /\ links' = LinkRefs(eheap, graphData.edges)
  /\ i' = 0
  /\ alpha' = options.alpha
  /\ timer' = TRUE
  /\ ticks' = 0
  /\ pc' = "ticking"
  /\ UNCHANGED <<graphData, input, options, result, valid, mvars, cvars>>

\* the same, when d3.forceLink meets an id that is no node's id: it throws
\* "node not found", and optimizeLayout and optimizeGraph with it
OptimizeGraphThrows ==
  /\ pc = "idle"
  /\ ~AllLinksResolve
  /\ orig' = OriginalMetrics(Deref(heap, graphData.nodes),
                             EdgeValues(eheap, graphData.edges))
  /\ heap' = HeapAfterCopy
  /\ LET first == CHOOSE k \in 1..Len(LinksAtStart) :
                    /\ ~Resolves(LinksAtStart[k], SimNodesAtStart)
                    /\ \A m \in 1..(k - 1) : Resolves(LinksAtStart[m], SimNodesAtStart)
     IN eheap' = EheapAfterLink(first - 1)
  /\ simNodes' = SimNodeRefs(heap, graphData.nodes)
  /\ links' = LinkRefs(eheap, graphData.edges)
  /\ i' = 0
  /\ alpha' = DefaultAlpha
  /\ timer' = TRUE
  /\ ticks' = 0
  /\ pc' = "threw"
  /\ UNCHANGED <<graphData, input, options, result, valid, mvars, cvars>>

\* a plausible slip: the loop also stops once the simulation has converged
LoopContinuesUntilConverged == i < options.iterations /\ alpha > 0

\* the loop condition i < this.options.iterations
LoopContinues == i < options.iterations

\* the heap after simulation.tick(): every simulation node is at pos
HeapAfterTick(pos) ==
  [r \in 1..Len(heap) |->
     IF \E k \in 1..Len(simNodes) : simNodes[k] = r
     THEN LET k == CHOOSE k \in 1..Len(simNodes) : simNodes[k] = r
          IN [heap[r] EXCEPT !.x = Fin(pos[k][1]), !.y = Fin(pos[k][2])]
     ELSE heap[r]]

\* alpha after a tick: alpha += (alphaTarget - alpha) * alphaDecay
AlphaAfterTick == IF alpha > 0 THEN alpha - 1 ELSE 0

\* for (i < iterations) simulation.tick(): every simulation node moves
Tick ==
  /\ pc = "ticking"
  /\ LoopContinues
  /\ \E pos \in [1..Len(simNodes) -> SimPos] : heap' = HeapAfterTick(pos)
  /\ i' = i + 1
  /\ alpha' = AlphaAfterTick
  /\ ticks' = ticks + 1
  /\ UNCHANGED <<eheap, graphData, input, options, pc, simNodes, links, orig,
                 result, valid, timer, mvars, cvars>>

\* the loop is over: optimizeLayout returns the rescaled, clamped copies and
\* optimizeGraph measures them and returns
OptimizeGraphReturn ==
  /\ pc = "ticking"
  /\ ~LoopContinues
  /\ LET out == ResultNodes(Deref(heap, simNodes), options)
         optimizedNodes == Fresh(heap, Len(out))
         after == OptimizedMetrics(Deref(heap, graphData.nodes),
                                   EdgeValues(eheap, graphData.edges), out)
     IN /\ heap' = heap \o out
        /\ result' =
             [originalNodes |-> graphData.nodes,
              optimizedNodes |-> optimizedNodes,
              edges |-> graphData.edges,
              metrics |->
                [originalCrossings |-> orig.crossings,
                 optimizedCrossings |-> after.crossings,
                 originalAverageDistance |-> orig.averageDistance,
                 optimizedAverageDistance |-> after.averageDistance,
                 originalMinDistance |-> orig.minDistance,
                 optimizedMinDistance |-> after.minDistance]]
  /\ pc' = "done"
  /\ UNCHANGED <<eheap, graphData, input, options, simNodes, links, i, orig,
                 valid, alpha, timer, ticks, mvars, cvars>>

\* validateCoordinates(graphData.nodes)
ValidateInput ==
  /\ pc = "idle"
  /\ valid' = ValidateCoordinates(Deref(heap, graphData.nodes))
  /\ pc' = "validated"
  /\ UNCHANGED <<heap, eheap, graphData, input, options, simNodes, links, i,
                 orig, result, alpha, timer, ticks, mvars, cvars>>

\* validateCoordinates(result.optimizedNodes)
ValidateOptimized ==
  /\ pc = "done"
  /\ valid' = ValidateCoordinates(Deref(heap, result.optimizedNodes))
  /\ pc' = "checked"
  /\ UNCHANGED <<heap, eheap, graphData, input, options, simNodes, links, i,
                 orig, result, alpha, timer, ticks, mvars, cvars>>

\* the result record as the optimizer's functions read it
ResultValue ==
  [originalNodes |-> Deref(heap, result.originalNodes),
   optimizedNodes |-> Deref(heap, result.optimizedNodes),
   edges |-> EdgeValues(eheap, result.edges),
   metrics |-> result.metrics]

\* the layout of the result a caller names
LayoutNamed(which) ==
  IF which = "original" THEN ResultValue.originalNodes
  ELSE ResultValue.optimizedNodes

\* compareLayouts(a, b, result.edges) for two layouts a, b of the result
CompareLayoutsCall ==
  /\ pc = "done"
  /\ \E a, b \in {"original", "optimized"} :
       comparison' = [original |-> a, optimized |-> b,
                      value |-> CompareLayouts(LayoutNamed(a), LayoutNamed(b),
                                               ResultValue.edges)]
  /\ pc' = "compared"
  /\ UNCHANGED <<heap, eheap, graphData, input, options, simNodes, links, i,
                 orig, result, valid, alpha, timer, ticks, mvars, layouts,
                 calls, d3memo, report, exported, ovars, summary, avars, vvars, rvars>>

\* formatResults(result)
FormatResultsCall ==
  /\ pc = "done"
  /\ summary' = FormatResults(ResultValue)
  /\ pc' = "formatted"
  /\ UNCHANGED <<heap, eheap, graphData, input, options, simNodes, links, i,
                 orig, result, valid, alpha, timer, ticks, mvars, layouts,
                 calls, d3memo, report, exported, ovars, comparison, avars, vvars, rvars>>

Next ==
  \/ OptimizeGraphCall
  \/ OptimizeGraphThrows
  \/ Tick
  \/ OptimizeGraphReturn
  \/ ValidateInput
  \/ ValidateOptimized
  \/ CompareLayoutsCall
  \/ FormatResultsCall

Spec == Init /\ [][Next]_vars

(***************************************************************************)
(* The event loop.  d3.forceSimulation starts the simulation's internal    *)
(* timer; optimizeLayout never calls simulation.stop().  Whenever no call  *)
(* is on the stack the timer may fire: it ticks the simulation and stops   *)
(* itself once alpha is below alphaMin.                                    *)
(***************************************************************************)
\* the timer's callback: tick(); if (alpha < alphaMin) stepper.stop()
TimerStep ==
  /\ pc # "ticking"
  /\ timer
  /\ \E pos \in [1..Len(simNodes) -> SimPos] : heap' = HeapAfterTick(pos)
  /\ alpha' = AlphaAfterTick
  /\ ticks' = ticks + 1
  /\ timer' = (AlphaAfterTick > 0)
  /\ UNCHANGED <<eheap, graphData, input, options, pc, simNodes, links, i,
                 orig, result, valid, mvars, cvars>>

\* the graphs of the event-loop harness: every vertex at (1/Unit, 1/Unit);
\* no vertex or one, with and without (dangling) edges, and two joined ones
LoopGraphs ==
  {g \in SmallGraphs :
     /\ \A k \in 1..Len(g.nodes) : g.nodes[k].x = Fin(1) /\ g.nodes[k].y = Fin(1)
     /\ Len(g.nodes) = 2 => Len(g.edges) > 0}

\* largest initial alpha of the event-loop harness
MaxAlpha == 2

\* a GraphOptimizer constructed with any iteration count from -1 on and any
\* initial alpha, on a workspace of 1 by 1
InitLoop ==
  /\ \E g \in LoopGraphs :
       /\ heap = g.nodes
       /\ eheap = g.edges
       /\ graphData = [nodes |-> [k \in 1..Len(g.nodes) |-> k],
                       edges |-> [k \in 1..Len(g.edges) |-> k]]
  /\ input = [nodes |-> heap, edges |-> eheap, graphData |-> graphData]
  /\ \E n \in -1..MaxIter, a \in 0..MaxAlpha :
       options = [width |-> Unit, height |-> Unit, iterations |-> n, alpha |-> a]
  /\ pc = "idle"
  /\ simNodes = <<>>
  /\ links = <<>>
  /\ i = 0
  /\ orig = NoMetrics
  /\ result = NoResult
  /\ valid = TRUE
  /\ alpha = 0
  /\ timer = FALSE
  /\ ticks = 0
  /\ MIdle
  /\ CIdle

NextLoop == Next \/ TimerStep

\* the step out of the loop: OptimizeGraphReturn, by what it does to pc
LoopExit == pc = "ticking" /\ ~LoopContinues /\ pc' = "done"

\* optimizeGraph is synchronous code: once called it runs on, tick after
\* tick, and when the loop is over it returns
SpecLoop == InitLoop /\ [][NextLoop]_vars /\ WF_vars(Tick) /\ WF_pc(LoopExit)

(***************************************************************************)
(* Metric-engine harness: a caller holds a vertex list and calls           *)
(* calculateEdgeCrossings on it with an edge list.                         *)
(***************************************************************************)
\* the vertex ids of the metric harness, in list order
MIds == <<"A", "B", "C", "D">>

\* vertex positions of the metric harness: x in {0, 1/Unit, .., 1}, y in {0, 1}
GridPts == (0..Unit) \X {0, Unit}

\* the edges a metric call may be given: any ordered pair of vertex ids
MEdgeSet == {Edge(MIds[a], MIds[b]) : a, b \in 1..Len(MIds)}

\* the edge lists a metric call may be given: at most two edges
MEdgeLists == {<<>>} \cup {<<e>> : e \in MEdgeSet}
              \cup {<<e1, e2>> : e1, e2 \in MEdgeSet}

\* p comes before q, or is q, in the order by x and then by y
PosLe(p, q) == p[1] < q[1] \/ (p[1] = q[1] /\ p[2] <= q[2])

\* the placements of the vertices: vertex k is at pos[k]; the vertex list is
\* given in position order (every placement is one of these up to the names
\* of the vertices, and a call may name any vertices in its edges)
MPlacements ==
  {pos \in [1..Len(MIds) -> GridPts] :
     \A k \in 1..(Len(MIds) - 1) : PosLe(pos[k], pos[k + 1])}

MInit ==
  /\ mNodes \in {[k \in 1..Len(MIds) |->
                   Node(MIds[k], Fin(pos[k][1]), Fin(pos[k][2]))] :
                 pos \in MPlacements}
  /\ mEdges = <<>>
  /\ mpc = "idle"
  /\ crossings = 0
  /\ mret = Zero
  /\ LIdle
  /\ CIdle

\* layout.calculateEdgeCrossings(nodes, edges) called and returned
CallCalculateEdgeCrossings ==
  /\ mpc = "idle"
  /\ \E edges \in MEdgeLists :
       /\ mEdges' = edges
       /\ crossings' = CalculateEdgeCrossings(mNodes, edges)
  /\ mpc' = "returned"
  /\ UNCHANGED <<mNodes, mret, lvars, cvars>>

\* the caller drops the result
MetricDone ==
  /\ mpc # "idle"
  /\ mpc' = "idle"
  /\ mEdges' = <<>>
  /\ crossings' = 0
  /\ mret' = Zero
  /\ UNCHANGED <<mNodes, lvars, cvars>>

MNext == CallCalculateEdgeCrossings \/ MetricDone

SpecMetric == MInit /\ [][MNext]_vars

(***************************************************************************)
(* Measure harness: a caller holds a vertex list of zero to three vertices *)
(* and calls the three metric functions and validateCoordinates on it; an  *)
(* edge may name a vertex the list does not have.                          *)
(***************************************************************************)
\* the id lists of the vertex lists: unique ids, and one id used twice
UniqueIdLists == {<<>>, <<"A">>, <<"A", "B">>, <<"A", "B", "C">>}
TwiceIdList == <<"A", "A">>

\* the vertex list with these ids at these positions
NodeList(ids, pos) ==
  [k \in 1..Len(ids) |-> Node(ids[k], Fin(pos[k][1]), Fin(pos[k][2]))]

\* the vertex lists: with unique ids in position order (any other list is
\* one of these up to the names), with one id twice in any order
MeasureNodeLists ==
  UNION {{NodeList(ids, pos) :
            pos \in {q \in [1..Len(ids) -> GridPts] :
                       \A k \in 1..(Len(ids) - 1) : PosLe(q[k], q[k + 1])}} :
          ids \in UniqueIdLists}
  \cup {NodeList(TwiceIdList, pos) : pos \in [1..Len(TwiceIdList) -> GridPts]}

MeasureInit ==
  /\ mNodes \in MeasureNodeLists
  /\ mEdges = <<>>
  /\ mpc = "idle"
  /\ crossings = 0
  /\ mret = Zero
  /\ LIdle
  /\ CIdle

\* layout.calculateAverageDistance(nodes, edges) called and returned
CallCalculateAverageDistance ==
  /\ mpc = "idle"
  /\ \E edges \in MEdgeLists :
       /\ mEdges' = edges
       /\ mret' = CalculateAverageDistance(mNodes, edges)
  /\ mpc' = "averaged"
  /\ UNCHANGED <<mNodes, crossings, lvars, cvars>>

\* layout.calculateMinimumNodeDistance(nodes) called and returned
CallCalculateMinimumNodeDistance ==
  /\ mpc = "idle"
  /\ mret' = CalculateMinimumNodeDistance(mNodes)
  /\ mpc' = "measured"
  /\ UNCHANGED <<mNodes, mEdges, crossings, lvars, cvars>>

\* optimizer.validateCoordinates(nodes) called and returned
CallValidateCoordinates ==
  /\ mpc = "idle"
  /\ mret' = ValidateCoordinates(mNodes)
  /\ mpc' = "vetted"
  /\ UNCHANGED <<mNodes, mEdges, crossings, lvars, cvars>>

MeasureNext ==
  \/ CallCalculateEdgeCrossings
  \/ CallCalculateAverageDistance
  \/ CallCalculateMinimumNodeDistance
  \/ CallValidateCoordinates
  \/ MetricDone

SpecMeasure == MeasureInit /\ [][MeasureNext]_vars

(***************************************************************************)
(* Call harness: a program holds two GraphOptimizer instances and calls    *)
(* optimizeGraph, formatResults and exportOptimizedLayout on them, one     *)
(* call after the other; a call is one step (it is synchronous).           *)
(***************************************************************************)
\* the built-in dataset exportOptimizedLayout lays out; the data file is
\* not part of the sources: two joined vertices stand for it
MalawiDistrictsData ==
  [nodes |-> <<Node("A", Zero, Zero), Node("B", One, One)>>,
   edges |-> <<Edge("A", "B")>>]

\* another graph a caller may pass: one vertex
OtherGraph == [nodes |-> <<Node("A", Fin(1), Fin(1))>>, edges |-> <<>>]

CallGraphs == {MalawiDistrictsData, OtherGraph}

\* the options of the instances of the call harness
CallOptions ==
  {[width |-> Unit, height |-> Unit, iterations |-> n, alpha |-> 1] : n \in {0, 1}}

\* largest number of optimizeGraph calls of a run of the call harness
MaxCalls == 3

\* the first instance is constructed with any of the options, the second
\* one with an iteration count of 1
InitCalls ==
  /\ layouts \in {<<o, [width |-> Unit, height |-> Unit, iterations |-> 1,
                      alpha |-> 1]>> : o \in CallOptions}
  /\ calls = <<>>
  /\ d3memo = {}
  /\ report = NoReport
  /\ exported = NoExport
  /\ OIdle
  /\ KIdle
  /\ AIdle
  /\ VIdle
  /\ RIdle
  /\ LIdle
  /\ MIdle

\* a plausible slip: the layout keeps its simulation nodes between calls and
\* starts the next run of a graph with the same ids where the last one ended
RunStartWarm(graphNodes, opts) ==
  IF /\ calls # <<>>
     /\ IdsOfNodes(calls[Len(calls)].sim) = IdsOfNodes(graphNodes)
  THEN calls[Len(calls)].sim
  ELSE ScaledCopies(graphNodes, opts)

\* the nodes the simulation of a call starts from
RunStart(graphNodes, opts) == ScaledCopies(graphNodes, opts)

\* all that a run of the d3 simulation is computed from: the nodes and links
\* it is given, the forces' parameters and the number of ticks
D3Key(start, edges, opts) == [nodes |-> start, links |-> edges, options |-> opts]

\* the simulation nodes after the loop.  Without a tick they are as they
\* started; d3 computes a run it has made before to the same positions; a
\* new run may end anywhere.
SimOutcomes(start, edges, opts) ==
  IF opts.iterations <= 0 THEN {start}
  ELSE IF \E m \in d3memo : m.key = D3Key(start, edges, opts)
  THEN {m.sim : m \in {r \in d3memo : r.key = D3Key(start, edges, opts)}}
  ELSE {[k \in 1..Len(start) |->
           HeapNode(start[k].id, Fin(pos[k][1]), Fin(pos[k][2]), TRUE)] :
        pos \in [1..Len(start) -> SimPos]}

\* what d3 has computed once the run from start has ended in sim
MemoAfter(start, edges, opts, sim) ==
  IF opts.iterations <= 0 THEN d3memo
  ELSE d3memo \cup {[key |-> D3Key(start, edges, opts), sim |-> sim]}

\* the OptimizationResult of optimizeGraph(graph) when the simulation ended
\* in sim
ResultOf(graph, opts, sim) ==
  LET before == OriginalMetrics(graph.nodes, graph.edges)
      optimizedNodes == ResultNodes(sim, opts)
      after == OptimizedMetrics(graph.nodes, graph.edges, optimizedNodes)
  IN [originalNodes |-> graph.nodes,
      optimizedNodes |-> optimizedNodes,
      edges |-> graph.edges,
      metrics |->
        [originalCrossings |-> before.crossings,
         optimizedCrossings |-> after.crossings,
         originalAverageDistance |-> before.averageDistance,
         optimizedAverageDistance |-> after.averageDistance,
         originalMinDistance |-> before.minDistance,
         optimizedMinDistance |-> after.minDistance]]

\* the record of the call optimizeGraph(graph) on instance inst; held: the
\* result was returned to the program (exportOptimizedLayout keeps the
\* result of its call to itself)
CallRecord(inst, graph, sim, held) ==
  [inst |-> inst, options |-> layouts[inst], graph |-> graph, sim |-> sim,
   result |-> ResultOf(graph, layouts[inst], sim), held |-> held]

\* optimizers[inst].optimizeGraph(graph), called and returned
CallOptimizeGraph ==
  /\ Len(calls) < MaxCalls
  /\ \E inst \in 1..2, graph \in CallGraphs :
       LET start == RunStart(graph.nodes, layouts[inst])
       IN \E sim \in SimOutcomes(start, graph.edges, layouts[inst]) :
            /\ calls' = Append(calls, CallRecord(inst, graph, sim, TRUE))
            /\ d3memo' = MemoAfter(start, graph.edges, layouts[inst], sim)
  /\ UNCHANGED <<layouts, report, exported, lvars, mvars, ovars, kvars, avars, vvars, rvars>>

\* JSON.stringify({nodes, edges, metrics}, null, 2) of a result
JsonOfResult(r) ==
  [nodes |-> [k \in 1..Len(r.optimizedNodes) |->
                [id |-> r.optimizedNodes[k].id,
                 x |-> JsonNumber(r.optimizedNodes[k].x),
                 y |-> JsonNumber(r.optimizedNodes[k].y)]],
   edges |-> r.edges,
   metrics |->
     [originalCrossings |-> r.metrics.originalCrossings,
      optimizedCrossings |-> r.metrics.optimizedCrossings,
      originalAverageDistance |-> JsonNumber(r.metrics.originalAverageDistance),
      optimizedAverageDistance |-> JsonNumber(r.metrics.optimizedAverageDistance),
      originalMinDistance |-> JsonNumber(r.metrics.originalMinDistance),
      optimizedMinDistance |-> JsonNumber(r.metrics.optimizedMinDistance)]]

\* optimizer.formatResults(r), for a result r the program holds (the
\* harness prints one report in a run)
CallFormatResults ==
  /\ report.call = 0
  /\ \E j \in 1..Len(calls) :
       /\ calls[j].held
       /\ report' = [call |-> j, text |-> FormatResults(calls[j].result)]
  /\ UNCHANGED <<layouts, calls, d3memo, exported, lvars, mvars, ovars, kvars, avars, vvars, rvars>>

\* optimizers[inst].exportOptimizedLayout(): it calls optimizeGraph on the
\* built-in dataset and serialises that result
CallExportOptimizedLayout ==
  /\ Len(calls) < MaxCalls
  /\ \E inst \in 1..2 :
       LET graph == MalawiDistrictsData
           start == RunStart(graph.nodes, layouts[inst])
       IN \E sim \in SimOutcomes(start, graph.edges, layouts[inst]) :
            /\ calls' = Append(calls, CallRecord(inst, graph, sim, FALSE))
            /\ d3memo' = MemoAfter(start, graph.edges, layouts[inst], sim)
            /\ exported' = [call |-> Len(calls) + 1,
                            json |-> JsonOfResult(ResultOf(graph, layouts[inst], sim))]
  /\ UNCHANGED <<layouts, report, lvars, mvars, ovars, kvars, avars, vvars, rvars>>

NextCalls ==
  \/ CallOptimizeGraph
  \/ CallFormatResults
  \/ CallExportOptimizedLayout

SpecCalls == InitCalls /\ [][NextCalls]_vars

(***************************************************************************)
(* Construction harness: a caller constructs a ForceDirectedLayout, or a   *)
(* GraphOptimizer (which constructs its ForceDirectedLayout from the same  *)
(* argument), with any subset of the fields of LayoutOptions or with no    *)
(* argument, and then uses it on a graph without vertices.  Fractional     *)
(* option values are kept as their decimal literals.                       *)
(***************************************************************************)
\* the field values of the object literal the constructor spreads over
Defaults ==
  [width |-> 800, height |-> 600, iterations |-> 300, alpha |-> "0.3",
   alphaDecay |-> "0.0228", velocityDecay |-> "0.4", chargeStrength |-> -30,
   linkDistance |-> 100, linkStrength |-> 1]

\* the value a caller of the harness passes for a field: never the default
Custom ==
  [width |-> 2, height |-> 2, iterations |-> 1, alpha |-> "1",
   alphaDecay |-> "1", velocityDecay |-> "0.5", chargeStrength |-> -50,
   linkDistance |-> 50, linkStrength |-> 0]

\* the arguments: no argument, or an object with any subset of the fields
PassedArgs ==
  {NoArgument} \cup {[given |-> TRUE, fields |-> [f \in S |-> Custom[f]]] : S \in SUBSET Fields}

\* the parameter options: Partial<LayoutOptions> = {}
Parameter(arg) == IF arg.given THEN arg.fields ELSE <<>>

\* a plausible slip: ...options is written first, so that the defaults win
SpreadDefaultsLast(defaults, opts) ==
  [f \in DOMAIN defaults \cup DOMAIN opts |->
     IF f \in DOMAIN defaults THEN defaults[f] ELSE opts[f]]

\* { ...defaults, ...options }: the fields of opts replace the defaults
Spread(defaults, opts) ==
  [f \in DOMAIN defaults \cup DOMAIN opts |->
     IF f \in DOMAIN opts THEN opts[f] ELSE defaults[f]]

\* the number of ticks after which a simulation started at alpha with this
\* alphaDecay is below d3's alphaMin of 0.001: alpha * (1 - alphaDecay)^n
TicksToConverge(a, decay) ==
  IF decay = "1" THEN 1 ELSE IF a = "0.3" THEN 248 ELSE 300

\* the options as the layout model reads them
LayoutView(o) ==
  [width |-> o.width, height |-> o.height, iterations |-> o.iterations,
   alpha |-> TicksToConverge(o.alpha, o.alphaDecay)]

\* the graphs of the construction harness: no vertex; no edge, or two
\* (dangling) edges
ConstructGraphs == {g \in SmallGraphs : Len(g.nodes) = 0}

InitConstruct ==
  /\ \E g \in ConstructGraphs :
       /\ heap = g.nodes
       /\ eheap = g.edges
       /\ graphData = [nodes |-> [k \in 1..Len(g.nodes) |-> k],
                       edges |-> [k \in 1..Len(g.edges) |-> k]]
  /\ input = [nodes |-> heap, edges |-> eheap, graphData |-> graphData]
  /\ options = LayoutView(NoOptions)
  /\ pc = "new"
  /\ simNodes = <<>>
  /\ links = <<>>
  /\ i = 0
  /\ orig = NoMetrics
  /\ result = NoResult
  /\ valid = TRUE
  /\ alpha = 0
  /\ timer = FALSE
  /\ ticks = 0
  /\ MIdle
  /\ layouts = <<>>
  /\ calls = <<>>
  /\ d3memo = {}
  /\ report = NoReport
  /\ exported = NoExport
  /\ passed \in PassedArgs
  /\ via = "none"
  /\ layoutOptions = NoOptions
  /\ KIdle
  /\ AIdle
  /\ VIdle
  /\ RIdle

\* new ForceDirectedLayout(options)
NewForceDirectedLayout ==
  /\ pc = "new"
  /\ layoutOptions' = Spread(Defaults, Parameter(passed))
  /\ options' = LayoutView(layoutOptions')
  /\ via' = "ForceDirectedLayout"
  /\ pc' = "idle"
  /\ UNCHANGED <<heap, eheap, graphData, input, simNodes, links, i, orig,
                 result, valid, alpha, timer, ticks, mvars, layouts, calls,
                 d3memo, report, exported, passed, kvars, avars, vvars, rvars>>

\* new GraphOptimizer(layoutOptions): this.layout = new
\* ForceDirectedLayout(layoutOptions)
NewGraphOptimizer ==
  /\ pc = "new"
  /\ layoutOptions' = Spread(Defaults, Parameter(passed))
  /\ options' = LayoutView(layoutOptions')
  /\ via' = "GraphOptimizer"
  /\ pc' = "idle"
  /\ UNCHANGED <<heap, eheap, graphData, input, simNodes, links, i, orig,
                 result, valid, alpha, timer, ticks, mvars, layouts, calls,
                 d3memo, report, exported, passed, kvars, avars, vvars, rvars>>

NextConstruct == NewForceDirectedLayout \/ NewGraphOptimizer \/ Next

SpecConstruct == InitConstruct /\ [][NextConstruct]_vars

(***************************************************************************)
(* App harness: one of the two React components is mounted; its mount      *)
(* effect runs optimizeGraph, and the user clicks the Optimize and the     *)
(* toggle buttons.  A node list is known by what it holds: "original" (the *)
(* dataset's nodes), "optimized" (the nodes an optimizeGraph call          *)
(* returned) or "empty".  DemoApp is mounted in React.StrictMode, which    *)
(* runs a mount effect twice in development.                               *)
(***************************************************************************)
\* largest number of optimizeGraph runs of a component
MaxRuns == 4

\* the message of DemoApp's catch block
FailedMessage == "Failed to optimize graph layout. Please try again."

InitApp ==
  /\ app \in {"DemoApp", "MalawiGraphApp"}
  /\ ui = InitialState
  /\ runs = NoRuns
  /\ layouts = <<>>
  /\ calls = <<>>
  /\ d3memo = {}
  /\ report = NoReport
  /\ exported = NoExport
  /\ OIdle
  /\ KIdle
  /\ VIdle
  /\ RIdle
  /\ LIdle
  /\ MIdle

\* the component is on screen (an error thrown out of MalawiGraphApp's
\* optimizeGraph unmounts it)
Mounted == app # "none" /\ runs.last # "crashed"

\* optimizeGraph() is called by the mount effect (cause "effect": once, and
\* once more at once under StrictMode) or by the Optimize button (cause
\* "button": DemoApp disables it while isLoading)
Triggered(cause) ==
  IF cause = "effect"
  THEN /\ runs.started = runs.effects
       /\ runs.finished = (IF app = "DemoApp" THEN 0 ELSE runs.effects)
       /\ runs.effects < (IF app = "DemoApp" THEN 2 ELSE 1)
  ELSE /\ runs.effects >= 1
       /\ app = "DemoApp" => ~ui.isLoading

\* the run counters after a call caused this way
Counted(cause) ==
  [runs EXCEPT !.started = @ + 1,
               !.effects = IF cause = "effect" THEN @ + 1 ELSE @]

\* DemoApp.optimizeGraph up to its await: setIsLoading(true); setError(null)
DemoAppOptimizeGraphStart ==
  /\ app = "DemoApp"
  /\ Mounted
  /\ runs.started < MaxRuns
  /\ \E cause \in {"effect", "button"} :
       /\ Triggered(cause)
       /\ runs' = Counted(cause)
  /\ ui' = [ui EXCEPT !.isLoading = TRUE, !.error = "null"]
  /\ UNCHANGED <<app, lvars, mvars, layouts, calls, d3memo, report, exported,
                 ovars, kvars, vvars, rvars>>

\* DemoApp.optimizeGraph after the await, when optimizer.optimizeGraph
\* returns: the three setters of the try block, then the finally block
DemoAppOptimizeGraphReturns ==
  /\ app = "DemoApp"
  /\ runs.finished < runs.started
  /\ ui' = [ui EXCEPT !.optimizedNodes = "optimized", !.metrics = "metrics",
                      !.isOptimized = TRUE, !.isLoading = FALSE]
  /\ runs' = [runs EXCEPT !.finished = @ + 1, !.last = "returned"]
  /\ UNCHANGED <<app, lvars, mvars, layouts, calls, d3memo, report, exported,
                 ovars, kvars, vvars, rvars>>

\* a plausible slip: setIsLoading(false) is the last statement of the try
\* block instead of a finally block
AfterCatchOnly(state) == [state EXCEPT !.error = FailedMessage]

\* the catch block and the finally block
AfterCatch(state) == [state EXCEPT !.error = FailedMessage, !.isLoading = FALSE]

\* DemoApp.optimizeGraph after the await, when optimizer.optimizeGraph throws
DemoAppOptimizeGraphThrows ==
  /\ app = "DemoApp"
  /\ runs.finished < runs.started
  /\ ui' = AfterCatch(ui)
  /\ runs' = [runs EXCEPT !.finished = @ + 1, !.last = "threw"]
  /\ UNCHANGED <<app, lvars, mvars, layouts, calls, d3memo, report, exported,
                 ovars, kvars, vvars, rvars>>

\* MalawiGraphApp.optimizeGraph: synchronous, three setters
MalawiGraphAppOptimizeGraph ==
  /\ app = "MalawiGraphApp"
  /\ Mounted
  /\ runs.started < MaxRuns
  /\ \E cause \in {"effect", "button"} :
       /\ Triggered(cause)
       /\ runs' = [Counted(cause) EXCEPT !.finished = @ + 1, !.last = "returned"]
  /\ ui' = [ui EXCEPT !.optimizedNodes = "optimized", !.metrics = "metrics",
                      !.isOptimized = TRUE]
  /\ UNCHANGED <<app, lvars, mvars, layouts, calls, d3memo, report, exported,
                 ovars, kvars, vvars, rvars>>

\* MalawiGraphApp.optimizeGraph when optimizer.optimizeGraph throws: nothing
\* catches the error and React unmounts the component
MalawiGraphAppOptimizeGraphThrows ==
  /\ app = "MalawiGraphApp"
  /\ Mounted
  /\ runs.started < MaxRuns
  /\ \E cause \in {"effect", "button"} :
       /\ Triggered(cause)
       /\ runs' = [Counted(cause) EXCEPT !.finished = @ + 1, !.last = "crashed"]
  /\ UNCHANGED <<app, ui, lvars, mvars, layouts, calls, d3memo, report,
                 exported, ovars, kvars, vvars, rvars>>

\* toggleView; DemoApp disables the button while optimizedNodes is empty
ToggleView ==
  /\ Mounted
  /\ runs.effects >= 1
  /\ app = "DemoApp" => ui.optimizedNodes # "empty"
  /\ ui' = IF ui.isOptimized
           THEN [ui EXCEPT !.currentNodes = ui.originalNodes, !.isOptimized = FALSE]
           ELSE [ui EXCEPT !.currentNodes = ui.optimizedNodes, !.isOptimized = TRUE]
  /\ UNCHANGED <<app, runs, lvars, mvars, layouts, calls, d3memo, report,
                 exported, ovars, kvars, vvars, rvars>>

\* the end of a DemoApp run, by either way
DemoAppOptimizeGraphEnds == DemoAppOptimizeGraphReturns \/ DemoAppOptimizeGraphThrows

NextApp ==
  \/ DemoAppOptimizeGraphStart
  \/ DemoAppOptimizeGraphReturns
  \/ DemoAppOptimizeGraphThrows
  \/ MalawiGraphAppOptimizeGraph
  \/ MalawiGraphAppOptimizeGraphThrows
  \/ ToggleView

\* the timer of the await fires and the call after it ends (C19): a run
\* that has started ends
SpecApp == InitApp /\ [][NextApp]_vars /\ WF_vars(DemoAppOptimizeGraphEnds)

(***************************************************************************)
(* Visualizer harness: a GraphOptimizer is constructed with some           *)
(* visualizer options; the caller calls render, updateVisualization and    *)
(* exportVisualization in any order.  A node list is known by what it      *)
(* holds ("original", "optimized").                                        *)
(***************************************************************************)
\* largest number of calls of a run of the visualizer harness
MaxVisualizerCalls == 4

\* the field values of the object literal GraphVisualizer's constructor
\* spreads over
VisualizerDefaults ==
  [width |-> 800, height |-> 600, nodeRadius |-> 8, nodeColor |-> "#4CAF50",
   edgeColor |-> "#666", edgeWidth |-> 2, backgroundColor |-> "#f5f5f5",
   showLabels |-> TRUE, labelFontSize |-> 12]

\* what the optimizer's constructor and a render call are given in the
\* harness: any subset of width and nodeColor, never a default, never the same
ConstructorOptions ==
  {[f \in S |-> [width |-> 400, nodeColor |-> "red"][f]] : S \in SUBSET {"width", "nodeColor"}}
RenderOptions ==
  {[f \in S |-> [width |-> 1000, nodeColor |-> "blue"][f]] : S \in SUBSET {"width", "nodeColor"}}

\* new GraphOptimizer(layoutOptions, visualizerOptions) has run
InitVisualizer ==
  /\ visualizerOptions \in ConstructorOptions
  /\ visualizer = 0
  /\ visualizers = <<>>
  /\ renders = <<>>
  /\ vlast = NoCall
  /\ layouts = <<>>
  /\ calls = <<>>
  /\ d3memo = {}
  /\ report = NoReport
  /\ exported = NoExport
  /\ OIdle
  /\ KIdle
  /\ AIdle
  /\ LIdle
  /\ MIdle
  /\ RIdle

\* new GraphVisualizer(container, options): the options, and an svg element
\* appended to the container with the options' size and background
NewGraphVisualizer(container, opts) ==
  LET o == Spread(VisualizerDefaults, opts)
  IN [container |-> container, options |-> o,
      svg |-> [width |-> o.width, height |-> o.height,
               backgroundColor |-> o.backgroundColor, drawn |-> "nothing",
               fill |-> "none"]]

\* GraphVisualizer.render(nodes, edges): the svg is emptied and drawn anew
Rendered(v, nodes) == [v EXCEPT !.svg.drawn = nodes, !.svg.fill = v.options.nodeColor]

\* GraphVisualizer.update(nodes, edges): the drawn elements move
Updated(v, nodes) == [v EXCEPT !.svg.drawn = nodes]

\* GraphVisualizer.exportSVG(): the svg element's outerHTML
ExportSVG(v) == [text |-> "svg", of |-> v.svg]

\* the empty string
EmptyString == [text |-> "", of |-> <<>>]

\* a plausible slip: render creates a visualizer only when there is none
VisualizerAfterRenderKeepFirst(handle, created) ==
  IF handle = 0 THEN created ELSE handle

\* this.visualizer = new GraphVisualizer(container, mergedOptions)
VisualizerAfterRender(handle, created) == created

\* optimizer.render(container, nodes, edges, options)
Render ==
  /\ vlast.n < MaxVisualizerCalls
  /\ \E opts \in RenderOptions :
       LET mergedOptions == Spread(visualizerOptions, opts)
           created == Len(visualizers) + 1
           handle == VisualizerAfterRender(visualizer, created)
           objects == Append(visualizers, NewGraphVisualizer("#graph", mergedOptions))
       IN /\ visualizer' = handle
          /\ visualizers' = [objects EXCEPT ![handle] = Rendered(@, "original")]
          /\ renders' = Append(renders, opts)
  /\ vlast' = [n |-> vlast.n + 1, op |-> "render", value |-> <<>>]
  /\ UNCHANGED <<visualizerOptions, lvars, mvars, layouts, calls, d3memo,
                 report, exported, ovars, kvars, avars, rvars>>

\* optimizer.updateVisualization(nodes, edges)
UpdateVisualization ==
  /\ vlast.n < MaxVisualizerCalls
  /\ \E nodes \in {"original", "optimized"} :
       /\ visualizers' = IF visualizer # 0
                         THEN [visualizers EXCEPT ![visualizer] = Updated(@, nodes)]
                         ELSE visualizers
       /\ vlast' = [n |-> vlast.n + 1, op |-> "update", value |-> nodes]
  /\ UNCHANGED <<visualizerOptions, visualizer, renders, lvars, mvars,
                 layouts, calls, d3memo, report, exported, ovars, kvars, avars, rvars>>

\* optimizer.exportVisualization(): this.visualizer?.exportSVG() || ''
ExportVisualization ==
  /\ vlast.n < MaxVisualizerCalls
  /\ vlast' = [n |-> vlast.n + 1, op |-> "export",
               value |-> IF visualizer # 0 THEN ExportSVG(visualizers[visualizer])
                         ELSE EmptyString]
  /\ UNCHANGED <<visualizerOptions, visualizer, visualizers, renders, lvars,
                 mvars, layouts, calls, d3memo, report, exported, ovars, kvars,
                 avars, rvars>>

NextVisualizer == Render \/ UpdateVisualization \/ ExportVisualization

SpecVisualizer == InitVisualizer /\ [][NextVisualizer]_vars

(***************************************************************************)
(* Rounding harness: optimizeLayout with iterations = 0 on one vertex,     *)
(* computed as the machine computes it.  A double is modelled as           *)
(* [s, m, e], the value s * m * 2^e, with m = 0 or a significand of        *)
(* Precision bits (53 on the machine); every operation rounds its exact    *)
(* result to the nearest double, ties to the even significand.  Exponents  *)
(* stay far from the limits of the format, so nothing overflows or is      *)
(* subnormal.                                                              *)
(***************************************************************************)
\* the number of significand bits of a double in the harness
Precision == 8

RECURSIVE Pow2(_)
Pow2(n) == IF n = 0 THEN 1 ELSE 2 * Pow2(n - 1)

DoubleZero == [s |-> 1, m |-> 0, e |-> 0]
DoubleOne == [s |-> 1, m |-> Pow2(Precision - 1), e |-> 0 - (Precision - 1)]

\* the exponent e with 2^(Precision-1) <= (n / d) / 2^e < 2^Precision, for
\* positive integers n and d, searched from e
RECURSIVE Exponent(_, _, _)
Exponent(n, d, e) ==
  LET num == IF e < 0 THEN n * Pow2(0 - e) ELSE n
      den == IF e > 0 THEN d * Pow2(e) ELSE d
  IN IF num >= den * Pow2(Precision) THEN Exponent(n, d, e + 1)
     ELSE IF num < den * Pow2(Precision - 1) THEN Exponent(n, d, e - 1)
     ELSE e

\* the double nearest to n / d, ties to even, for positive integers n and d
RoundToNearestEven(n, d) ==
  LET e == Exponent(n, d, 0)
      num == IF e < 0 THEN n * Pow2(0 - e) ELSE n
      den == IF e > 0 THEN d * Pow2(e) ELSE d
      q == num \div den
      r == num % den
      m == IF 2 * r > den \/ (2 * r = den /\ q % 2 = 1) THEN q + 1 ELSE q
  IN IF m = Pow2(Precision) THEN [m |-> m \div 2, e |-> e + 1]
     ELSE [m |-> m, e |-> e]

\* a * w in doubles, w a positive integer that is a double
DoubleTimes(a, w) ==
  IF a.m = 0 THEN a
  ELSE LET r == RoundToNearestEven(a.m * w, 1)
       IN [s |-> a.s, m |-> r.m, e |-> a.e + r.e]

\* a / w in doubles, w a positive integer that is a double
DoubleOver(a, w) ==
  IF a.m = 0 THEN a
  ELSE LET r == RoundToNearestEven(a.m, w)
       IN [s |-> a.s, m |-> r.m, e |-> a.e + r.e]

\* Math.max(0, Math.min(1, v)) on a double
DoubleClampUnit(v) ==
  IF v.m = 0 \/ v.s = -1 THEN DoubleZero
  ELSE IF v.e >= 0 - (Precision - 1) THEN DoubleOne
  ELSE v

\* 0 <= v <= 1
DoubleInUnit(v) == DoubleClampUnit(v) = v

\* the x coordinates of the harness: every double of [1/4, 1), and 0, 1,
\* the double after 1, 3 and -1/2
RoundingXs ==
  {[s |-> 1, m |-> m, e |-> e] :
     m \in Pow2(Precision - 1)..(Pow2(Precision) - 1),
     e \in {0 - Precision, 0 - (Precision + 1)}}
  \cup {DoubleZero, DoubleOne,
        [s |-> 1, m |-> Pow2(Precision - 1) + 1, e |-> 0 - (Precision - 1)],
        [s |-> 1, m |-> 3 * Pow2(Precision - 2), e |-> 0 - (Precision - 2)],
        [s |-> -1, m |-> Pow2(Precision - 1), e |-> 0 - Precision]}

\* the y coordinates of the harness: 1/2 and the double before 1
RoundingYs ==
  {[s |-> 1, m |-> Pow2(Precision - 1), e |-> 0 - Precision],
   [s |-> 1, m |-> Pow2(Precision) - 1, e |-> 0 - Precision]}

\* the workspaces of the harness: the default one and a power of two wide
RoundingOptions ==
  {[width |-> w, height |-> 600, iterations |-> 0] : w \in {800, 1024}}

\* a layout engine with iterations = 0 has been constructed and the caller
\* holds a vertex
InitRounding ==
  /\ rIn \in {[id |-> "A", x |-> x, y |-> y] : x \in RoundingXs, y \in RoundingYs}
  /\ rOpts \in RoundingOptions
  /\ rOut = <<>>
  /\ rpc = "idle"
  /\ layouts = <<>>
  /\ calls = <<>>
  /\ d3memo = {}
  /\ report = NoReport
  /\ exported = NoExport
  /\ OIdle
  /\ KIdle
  /\ AIdle
  /\ VIdle
  /\ LIdle
  /\ MIdle

\* optimizeLayout when options.iterations is 0: the loop body never runs,
\* and d3 leaves a vertex whose x and y are numbers where it is
OptimizeLayoutNoTicks ==
  /\ rpc = "idle"
  /\ rOpts.iterations = 0
  /\ LET node == [id |-> rIn.id,
                  x |-> DoubleTimes(rIn.x, rOpts.width),
                  y |-> DoubleTimes(rIn.y, rOpts.height)]
     IN rOut' = [id |-> node.id,
                 x |-> DoubleClampUnit(DoubleOver(node.x, rOpts.width)),
                 y |-> DoubleClampUnit(DoubleOver(node.y, rOpts.height))]
  /\ rpc' = "returned"
  /\ UNCHANGED <<rIn, rOpts, lvars, mvars, layouts, calls, d3memo, report,
                 exported, ovars, kvars, avars, vvars>>

NextRounding == OptimizeLayoutNoTicks

SpecRounding == InitRounding /\ [][NextRounding]_vars

(***************************************************************************)
(* Claims about the layout engine and the optimizer (checked under Spec)   *)
(***************************************************************************)
\* the ids of a node list, in order
IdsOf(nodes) == [k \in 1..Len(nodes) |-> nodes[k].id]

\* optimizeGraph has returned
Returned == pc \in {"done", "checked"}

\* the nodes optimizeLayout returned, the caller's nodes and edges
OptimizedNodes == Deref(heap, result.optimizedNodes)
CallerNodes == Deref(heap, graphData.nodes)
CallerEdges == Deref(eheap, graphData.edges)

\* the simulation has moved vertex k away from its rescaled input position
Moved(k) ==
  \/ heap[simNodes[k]].x # Mul(input.nodes[k].x, Fin(options.width))
  \/ heap[simNodes[k]].y # Mul(input.nodes[k].y, Fin(options.height))

\* C1: optimizeLayout returns as many nodes as the graph has, the i-th with
\* the id of the i-th input node; so the ids of optimizedNodes are the ids of
\* originalNodes, in order.
C1_IdsPreserved ==
  Returned =>
    /\ Len(result.optimizedNodes) = Len(input.nodes)
    /\ IdsOf(OptimizedNodes) = IdsOf(input.nodes)
    /\ IdsOf(OptimizedNodes) = IdsOf(Deref(heap, result.originalNodes))

\* C1 witness: a graph of at least two vertices came back after the
\* simulation moved its first vertex out of the workspace
C1_Witness ==
  /\ pc = "done"
  /\ Len(input.nodes) >= 2
  /\ i >= 1
  /\ heap[simNodes[1]].x = Fin(-2)
  /\ IdsOf(OptimizedNodes) = IdsOf(input.nodes)

\* the coordinate c is a number in [0, 1]
InUnit(c) == c.k = "fin" /\ 0 <= c.v /\ c.v <= Unit

\* C2 (as claimed): for all graphs, all options and any iteration count,
\* every coordinate optimizeLayout returns is in [0, 1], and
\* validateCoordinates of the optimized nodes is true.
C2_AlwaysInUnitSquare ==
  /\ Returned =>
       \A k \in 1..Len(OptimizedNodes) :
         InUnit(OptimizedNodes[k].x) /\ InUnit(OptimizedNodes[k].y)
  /\ pc = "checked" => valid

\* C3: no operation changes what the caller passed: the node array, every
\* node, the edge array and every edge are as they were before the call.
C3_InputNotMutated ==
  pc # "idle" =>
    /\ graphData = input.graphData
    /\ CallerNodes = input.nodes
    /\ CallerEdges = input.edges

\* C3 witness: optimizeGraph returned after the simulation moved a vertex
\* and linked an edge, and the caller's graph is as it was
C3_Witness ==
  /\ pc = "done"
  /\ Len(simNodes) >= 1
  /\ Moved(1)
  /\ Len(links) >= 1
  /\ eheap[links[1]].linked
  /\ CallerNodes = input.nodes
  /\ CallerEdges = input.edges

\* C4: optimizeGraph returns originalNodes and edges equal, element for
\* element, to the graph's; each original metric is the metric of the graph,
\* and each optimized metric is the metric of the optimizedNodes it returns.
C4_ResultPackaging ==
  pc = "done" =>
    /\ result.originalNodes = graphData.nodes
    /\ Deref(heap, result.originalNodes) = input.nodes
    /\ result.edges = graphData.edges
    /\ Deref(eheap, result.edges) = input.edges
    /\ result.metrics.originalCrossings
         = CalculateEdgeCrossings(CallerNodes, EdgeValues(eheap, graphData.edges))
    /\ result.metrics.originalAverageDistance
         = CalculateAverageDistance(CallerNodes, EdgeValues(eheap, graphData.edges))
    /\ result.metrics.originalMinDistance
         = CalculateMinimumNodeDistance(CallerNodes)
    /\ result.metrics.optimizedCrossings
         = CalculateEdgeCrossings(OptimizedNodes, EdgeValues(eheap, result.edges))
    /\ result.metrics.optimizedAverageDistance
         = CalculateAverageDistance(OptimizedNodes, EdgeValues(eheap, result.edges))
    /\ result.metrics.optimizedMinDistance
         = CalculateMinimumNodeDistance(OptimizedNodes)

\* C4 witness: a result whose optimized metrics all differ from the original
\* ones
C4_Witness ==
  /\ pc = "done"
  /\ result.metrics.originalCrossings = 1
  /\ result.metrics.optimizedCrossings = 0
  /\ result.metrics.optimizedAverageDistance # result.metrics.originalAverageDistance
  /\ result.metrics.optimizedMinDistance # result.metrics.originalMinDistance

\* the nodes validateCoordinates was called on
ValidatedNodes == IF pc = "validated" THEN CallerNodes ELSE OptimizedNodes

\* C5: validateCoordinates returns true exactly when every node has
\* 0 <= x <= 1 and 0 <= y <= 1, bounds included (so true for no nodes).
C5_ValidateCoordinates ==
  pc \in {"validated", "checked"} =>
    (valid <=> \A k \in 1..Len(ValidatedNodes) :
                 InUnit(ValidatedNodes[k].x) /\ InUnit(ValidatedNodes[k].y))

\* C5 witness: validateCoordinates returned true for nodes on the boundary
C5_Witness ==
  /\ pc = "validated"
  /\ Len(CallerNodes) = 2
  /\ \A k \in 1..2 : CallerNodes[k].x = Zero /\ CallerNodes[k].y = One
  /\ valid

(***************************************************************************)
(* Claims about the metric engine (checked under SpecMetric)               *)
(***************************************************************************)
\* the vertex of the caller's list with the given id
MNodeOf(id) == CHOOSE n \in {mNodes[k] : k \in 1..Len(mNodes)} : n.id = id

\* twice the signed area of the triangle p, q, r
Orient(p, q, r) ==
  (q.x.v - p.x.v) * (r.y.v - p.y.v) - (q.y.v - p.y.v) * (r.x.v - p.x.v)

\* p1, p2, p3, p4 are, in this cyclic order, the corners of a convex
\* quadrilateral
ConvexCycle(p1, p2, p3, p4) ==
  \/ /\ Orient(p1, p2, p3) > 0 /\ Orient(p2, p3, p4) > 0
     /\ Orient(p3, p4, p1) > 0 /\ Orient(p4, p1, p2) > 0
  \/ /\ Orient(p1, p2, p3) < 0 /\ Orient(p2, p3, p4) < 0
     /\ Orient(p3, p4, p1) < 0 /\ Orient(p4, p1, p2) < 0

\* r and s lie strictly on opposite sides of the line through p and q
OppositeSides(p, q, r, s) == Orient(p, q, r) * Orient(p, q, s) < 0

\* a call on exactly two edges has returned
PairCall == mpc = "returned" /\ Len(mEdges) = 2

E1s == MNodeOf(mEdges[1].source)
E1t == MNodeOf(mEdges[1].target)
E2s == MNodeOf(mEdges[2].source)
E2t == MNodeOf(mEdges[2].target)

PairIds == {mEdges[1].source, mEdges[1].target, mEdges[2].source, mEdges[2].target}

\* C6: for four vertices with pairwise distinct ids at the corners of a
\* convex quadrilateral, calculateEdgeCrossings returns exactly 1 on the two
\* diagonals and exactly 0 on two opposite sides.
C6_ConvexQuadrilateral ==
  (PairCall /\ Cardinality(PairIds) = 4) =>
    /\ ConvexCycle(E1s, E2s, E1t, E2t) => crossings = 1
    /\ (ConvexCycle(E1s, E1t, E2s, E2t) \/ ConvexCycle(E1s, E1t, E2t, E2s))
         => crossings = 0

\* C6 witness: a call on the two diagonals of a convex quadrilateral returned 1
C6_Witness ==
  /\ PairCall
  /\ Cardinality(PairIds) = 4
  /\ ConvexCycle(E1s, E2s, E1t, E2t)
  /\ crossings = 1

\* some endpoint of one edge lies on the line of the other edge (this covers
\* T-junctions, touching, coinciding vertices and collinear segments)
EndpointOnLine ==
  \/ Orient(E2s, E2t, E1s) = 0 \/ Orient(E2s, E2t, E1t) = 0
  \/ Orient(E1s, E1t, E2s) = 0 \/ Orient(E1s, E1t, E2t) = 0

\* C7: a pair of edges is counted only when each segment's endpoints lie
\* strictly on opposite sides of the other segment's line; a pair with an
\* endpoint on the other edge's line, or collinear, is never counted.
C7_StrictCrossingOnly ==
  PairCall =>
    /\ crossings \in {0, 1}
    /\ crossings = 1 => /\ OppositeSides(E2s, E2t, E1s, E1t)
                        /\ OppositeSides(E1s, E1t, E2s, E2t)
    /\ EndpointOnLine => crossings = 0

\* C7 witness: a T-junction of two edges over four distinct vertices at four
\* distinct positions: one endpoint lies strictly inside the other segment
C7_Witness ==
  /\ PairCall
  /\ Cardinality(PairIds) = 4
  /\ Cardinality({<<n.x, n.y>> : n \in {E1s, E1t, E2s, E2t}}) = 4
  /\ Orient(E1s, E1t, E2s) = 0
  /\ OppositeSides(E2s, E2t, E1s, E1t)
  /\ crossings = 0

\* the two edges of the call have an endpoint id in common
SharesEndpoint ==
  {mEdges[1].source, mEdges[1].target} \cap {mEdges[2].source, mEdges[2].target} # {}

\* C8: two edges that share at least one endpoint id (duplicates and the same
\* edge twice included) are never counted as a crossing.
C8_SharedEndpointNeverCrosses ==
  (PairCall /\ SharesEndpoint) => crossings = 0

\* C8 witness: two edges out of one vertex towards two other vertices
C8_Witness ==
  /\ PairCall
  /\ SharesEndpoint
  /\ Cardinality(PairIds) = 3
  /\ Orient(E1s, E1t, E2t) # 0
  /\ crossings = 0

\* C9: the pairwise test is symmetric (the call counts the pair exactly when
\* the test with the two edges exchanged succeeds), and an edge never
\* crosses itself.
C9_CrossingSymmetric ==
  PairCall =>
    /\ (crossings = 1) <=> DoEdgesCross(E2s, E2t, E1s, E1t)
    /\ (crossings = 1) <=> DoEdgesCross(E1s, E1t, E2s, E2t)
    /\ mEdges[1] = mEdges[2] => crossings = 0

\* C9 witness: a counted pair whose exchanged test succeeds as well
C9_Witness ==
  /\ PairCall
  /\ crossings = 1
  /\ DoEdgesCross(E2s, E2t, E1s, E1t)

\* the permutations of 1..n
Perms(n) == {p \in [1..n -> 1..n] : \A a, b \in 1..n : p[a] = p[b] => a = b}

\* the reorderings of the caller's vertex list and of an edge list
VertexPerms == Perms(Len(MIds))
EdgePerms == [n \in 0..2 |-> Perms(n)]

\* the list s reordered by the permutation p
Permute(s, p) == [k \in 1..Len(s) |-> s[p[k]]]

\* the edge lists got from edges by exchanging source and target of the
\* edges whose index is in flip
Flip(edges, flip) ==
  [k \in 1..Len(edges) |->
     IF k \in flip THEN Edge(edges[k].target, edges[k].source) ELSE edges[k]]

\* C10: every unordered pair of edge-list positions is counted at most once,
\* and the count is unchanged by permuting the edge list, by exchanging
\* source and target of any edges, and by permuting the vertex list.
C10_OrderIndependent ==
  mpc = "returned" =>
    /\ 2 * crossings <= Len(mEdges) * (Len(mEdges) - 1)
    /\ \A p \in EdgePerms[Len(mEdges)] :
         CalculateEdgeCrossings(mNodes, Permute(mEdges, p)) = crossings
    /\ \A flip \in SUBSET (1..Len(mEdges)) :
         CalculateEdgeCrossings(mNodes, Flip(mEdges, flip)) = crossings
    /\ \A p \in VertexPerms :
         CalculateEdgeCrossings(Permute(mNodes, p), mEdges) = crossings

\* C10 witness: a call on two crossing edges returned 1, not 2
C10_Witness ==
  /\ PairCall
  /\ OppositeSides(E2s, E2t, E1s, E1t)
  /\ OppositeSides(E1s, E1t, E2s, E2t)
  /\ crossings = 1

(***************************************************************************)
(* Claims about the distance metrics and totality (checked under           *)
(* SpecMeasure)                                                            *)
(***************************************************************************)
\* the ids the caller's vertex list has
Known == {mNodes[k].id : k \in 1..Len(mNodes)}

\* the vertex an id resolves to: the last one of the list with that id
Lookup(id) ==
  mNodes[CHOOSE k \in 1..Len(mNodes) :
           mNodes[k].id = id /\ \A m \in (k + 1)..Len(mNodes) : mNodes[m].id # id]

\* the square of the Euclidean distance of two vertices, in 1/Unit^2
SqDist(a, b) ==
  (a.x.v - b.x.v) * (a.x.v - b.x.v) + (a.y.v - b.y.v) * (a.y.v - b.y.v)

\* the positions of the call's edges whose endpoints both resolve
ResolvedIdx ==
  {k \in 1..Len(mEdges) : mEdges[k].source \in Known /\ mEdges[k].target \in Known}

\* the j-th smallest element of a set of numbers
NthOf(S, j) == CHOOSE k \in S : Cardinality({m \in S : m < k}) = j - 1

\* C11: calculateAverageDistance returns the sum of the endpoint distances of
\* the edges whose endpoints both resolve, divided by the number of those
\* edges (unresolved edges enter neither), and exactly 0 when no edge resolves.
C11_AverageDistance ==
  mpc = "averaged" =>
    IF ResolvedIdx = {}
    THEN mret.k = "fin" /\ mret.v = 0
    ELSE /\ mret.k = "mean"
         /\ mret.edgeCount = Cardinality(ResolvedIdx)
         /\ Len(mret.radicands) = Cardinality(ResolvedIdx)
         /\ \A j \in 1..Cardinality(ResolvedIdx) :
              LET e == mEdges[NthOf(ResolvedIdx, j)]
              IN mret.radicands[j] = Fin(SqDist(Lookup(e.source), Lookup(e.target)))

\* C11 witness: a call on one resolved edge of positive length and one edge
\* with an unknown endpoint returned the length of the resolved edge over 1
C11_Witness ==
  /\ mpc = "averaged"
  /\ Len(mEdges) = 2
  /\ ResolvedIdx = {2}
  /\ mret.edgeCount = 1
  /\ mret.radicands[1].v > 0

\* the pairs of list positions calculateMinimumNodeDistance ranges over
PositionPairs == {q \in (1..Len(mNodes)) \X (1..Len(mNodes)) : q[1] < q[2]}

\* C12: calculateMinimumNodeDistance returns the least distance over all
\* pairs of distinct list positions (0 when two vertices coincide), and
\* +Infinity for a list of zero or one vertex.  (Distances are compared by
\* their squares.)
C12_MinimumNodeDistance ==
  mpc = "measured" =>
    IF Len(mNodes) < 2
    THEN mret = PInf
    ELSE /\ mret.k = "fin"
         /\ \E q \in PositionPairs : mret.v = SqDist(mNodes[q[1]], mNodes[q[2]])
         /\ \A q \in PositionPairs : mret.v <= SqDist(mNodes[q[1]], mNodes[q[2]])
         /\ (\E q \in PositionPairs :
               /\ mNodes[q[1]].x = mNodes[q[2]].x
               /\ mNodes[q[1]].y = mNodes[q[2]].y) => mret.v = 0

\* C12 witness: the least distance of three vertices is the distance of the
\* first and the last, which no edge joins
C12_Witness ==
  /\ mpc = "measured"
  /\ Len(mNodes) = 3
  /\ mret.k = "fin"
  /\ mret.v > 0
  /\ mret.v = SqDist(mNodes[1], mNodes[3])
  /\ mret.v < SqDist(mNodes[1], mNodes[2])
  /\ mret.v < SqDist(mNodes[2], mNodes[3])

\* the pairs of edge positions whose four endpoints all resolve
ResolvedPairs ==
  {q \in ResolvedIdx \X ResolvedIdx : q[1] < q[2]}

\* C18: each of the four functions returns a value for every vertex list and
\* edge list: a count, a distance that is a number, a distance or +Infinity,
\* a boolean; calculateEdgeCrossings returns 0 for no vertices or no edges
\* and counts no pair of edges with an unresolved endpoint.
C18_MetricsTotal ==
  /\ mpc = "returned" =>
       /\ crossings \in Nat
       /\ (Len(mNodes) = 0 \/ Len(mEdges) = 0) => crossings = 0
       /\ crossings <= Cardinality(ResolvedPairs)
  /\ mpc = "averaged" => mret.k \in {"fin", "mean"}
  /\ mpc = "measured" => mret.k \in {"fin", "pinf"}
  /\ mpc = "vetted" => mret \in BOOLEAN

\* C18 witness: calculateEdgeCrossings returned 0 for two edges over three
\* known vertices and one unknown one
C18_Witness ==
  /\ mpc = "returned"
  /\ Len(mNodes) = 3
  /\ Len(mEdges) = 2
  /\ Cardinality(PairIds) = 4
  /\ Cardinality(PairIds \ Known) = 1
  /\ crossings = 0

(***************************************************************************)
(* Further claims about the layout engine and the optimizer (checked       *)
(* under Spec)                                                             *)
(***************************************************************************)
\* the distance d, as calculateAverageDistance or
\* calculateMinimumNodeDistance returns it, is a number >= 0 (or +Infinity)
NonNegative(d) ==
  \/ d.k = "pinf"
  \/ d.k = "fin" /\ d.v >= 0
  \/ d.k = "mean" /\ \A k \in 1..Len(d.radicands) :
                        d.radicands[k].k = "fin" /\ d.radicands[k].v >= 0

\* the number of unordered pairs of edges of the graph
EdgePairs == (Len(input.edges) * (Len(input.edges) - 1)) \div 2

\* C13 (as claimed): for every graph and every configuration the six metrics
\* optimizeGraph returns are >= 0, and the two crossing counts are integers
\* not above E * (E - 1) / 2.
C13_MetricsNonNegative ==
  Returned =>
    /\ result.metrics.originalCrossings \in 0..EdgePairs
    /\ result.metrics.optimizedCrossings \in 0..EdgePairs
    /\ NonNegative(result.metrics.originalAverageDistance)
    /\ NonNegative(result.metrics.optimizedAverageDistance)
    /\ NonNegative(result.metrics.originalMinDistance)
    /\ NonNegative(result.metrics.optimizedMinDistance)

\* the graph the caller passed has an edge whose source or target is no
\* vertex's id
HasDanglingEdge ==
  \E k \in 1..Len(input.edges) : ~Resolves(input.edges[k], input.nodes)

\* C15 (as claimed): with a dangling edge in the graph the call does not
\* fail: once it is over, a position has been returned for every vertex.
C15_DanglingEdgeSkipped ==
  HasDanglingEdge =>
    /\ pc # "threw"
    /\ Returned => Len(result.optimizedNodes) = Len(input.nodes)

\* C16 (as claimed): with width <= 0 or height <= 0 the engine fails at
\* entry: it neither runs the simulation nor returns positions.
C16_DimensionsValidated ==
  (options.width <= 0 \/ options.height <= 0) =>
    pc \notin {"ticking", "done", "checked"}

(***************************************************************************)
(* Claims about the simulation run (checked under SpecLoop)                *)
(***************************************************************************)
\* the number of ticks an iteration count asks for
Max0(n) == IF n > 0 THEN n ELSE 0

\* C19: optimizeLayout ticks the simulation exactly `iterations` times
\* (no time for iterations <= 0) before it reads the positions, whatever the
\* alpha, and every call that started ticking returns.
C19_ExactlyIterationsTicks ==
  /\ [](pc = "ticking" => ticks = i /\ i <= Max0(options.iterations))
  /\ [][pc = "ticking" /\ pc' = "done"
         => ticks = Max0(options.iterations) /\ ticks' = ticks]_vars
  /\ [](Returned => i = Max0(options.iterations))
  /\ (pc = "ticking") ~> (pc = "done")

\* C19 witness: a call asked for two ticks returned after two ticks, the
\* second one made when alpha was already below alphaMin
C19_Witness ==
  /\ pc = "done"
  /\ options.iterations = 2
  /\ options.alpha = 1
  /\ i = 2
  /\ ticks = 2
  /\ alpha = 0

\* C20 (as claimed): once optimizeLayout has returned its simulation is not
\* ticked again and is not active: no timer steps it.
C20_NoBackgroundTick ==
  Returned => (ticks = i /\ ~timer)

(***************************************************************************)
(* Claims about sequences of calls (checked under SpecCalls)               *)
(***************************************************************************)
\* the text of a distance and the JSON of a distance show the same number
Agrees(printed, json) ==
  printed.text = "digits" /\ json.json = "number" /\ printed.of = json.of

\* C14 (as claimed): the summary formatResults(r) prints for the result r of
\* an optimizeGraph call and the JSON of exportOptimizedLayout() show the
\* metrics of one and the same result, with nothing computed again between
\* them.
C14_SummaryMatchesExport ==
  (report.call # 0 /\ exported.call # 0) =>
    /\ exported.call = report.call
    /\ report.text.originalCrossings = exported.json.metrics.originalCrossings
    /\ report.text.optimizedCrossings = exported.json.metrics.optimizedCrossings
    /\ Agrees(report.text.originalAverageDistance,
              exported.json.metrics.originalAverageDistance)
    /\ Agrees(report.text.optimizedAverageDistance,
              exported.json.metrics.optimizedAverageDistance)
    /\ Agrees(report.text.originalMinDistance,
              exported.json.metrics.originalMinDistance)
    /\ Agrees(report.text.optimizedMinDistance,
              exported.json.metrics.optimizedMinDistance)

\* C17: two calls with equal graph and equal options return equal
\* positions, whichever instance they were made on and whatever was called
\* before or in between; a call sees the options its instance was
\* constructed with, and no call changes them.
C17_Deterministic ==
  /\ [](\A a, b \in 1..Len(calls) :
          (calls[a].graph = calls[b].graph /\ calls[a].options = calls[b].options)
            => calls[a].result.optimizedNodes = calls[b].result.optimizedNodes)
  /\ [](\A a \in 1..Len(calls) : calls[a].options = layouts[calls[a].inst])
  /\ [][layouts' = layouts]_vars

\* C17 witness: the first and the third call laid out the same graph with
\* equal options on different instances, ticking once, another graph was
\* laid out in between, the vertices moved, and both returned the same
\* positions
C17_Witness ==
  /\ Len(calls) = 3
  /\ calls[1].graph = calls[3].graph
  /\ calls[1].inst # calls[3].inst
  /\ calls[1].options = calls[3].options
  /\ calls[1].options.iterations = 1
  /\ calls[2].graph # calls[1].graph
  /\ calls[1].sim # RunStart(calls[1].graph.nodes, calls[1].options)
  /\ calls[1].result.optimizedNodes = calls[3].result.optimizedNodes

(***************************************************************************)
(* Claims about the final rescaling (checked under Spec)                   *)
(***************************************************************************)
\* the simulation node of vertex k, as optimizeLayout reads it after the loop
SimNode(k) == heap[simNodes[k]]

\* the output coordinate o of a vertex whose simulated coordinate is s, on an
\* axis of the given dimension: s / dimension when s is inside the workspace
\* (dimension > 0), 0 or 1 when it is outside, 0 below and 1 beyond it
AxisClamped(s, dimension, o) ==
  /\ (dimension > 0 /\ 0 <= s.v /\ s.v <= dimension * Unit)
       => (o.k = "fin" /\ o.v * dimension = s.v)
  /\ (s.v < 0 \/ s.v > dimension * Unit) => o \in {Zero, One}
  /\ (dimension > 0 /\ s.v < 0) => o = Zero
  /\ (dimension > 0 /\ s.v > dimension * Unit) => o = One

\* C21: each output coordinate is clamp(sim / dimension, 0, 1) of the
\* vertex's own simulated coordinate: a vertex inside the workspace keeps
\* sim / dimension, one outside is pinned to 0 or 1 on that axis, and the
\* output of a vertex is what it would be were it the only vertex.
C21_PerVertexClamp ==
  Returned =>
    \A k \in 1..Len(simNodes) :
      /\ OptimizedNodes[k].x = ClampUnit(Div(SimNode(k).x, Fin(options.width)))
      /\ OptimizedNodes[k].y = ClampUnit(Div(SimNode(k).y, Fin(options.height)))
      /\ AxisClamped(SimNode(k).x, options.width, OptimizedNodes[k].x)
      /\ AxisClamped(SimNode(k).y, options.height, OptimizedNodes[k].y)
      /\ OptimizedNodes[k] = ResultNodes(<<SimNode(k)>>, options)[1]

\* C21 witness: of two vertices the simulation left the first strictly
\* inside a workspace of 2 by 2, which kept sim / dimension, and the second
\* outside on both axes, which was pinned to 1 and to 0
C21_Witness ==
  /\ pc = "done"
  /\ i >= 1
  /\ Len(simNodes) = 2
  /\ options.width = 2
  /\ options.height = 2
  /\ SimNode(1).x = Fin(2) /\ SimNode(1).y = Fin(2)
  /\ OptimizedNodes[1].x = Fin(1) /\ OptimizedNodes[1].y = Fin(1)
  /\ SimNode(2).x = Fin(6) /\ SimNode(2).y = Fin(-2)
  /\ OptimizedNodes[2].x = One /\ OptimizedNodes[2].y = Zero

(***************************************************************************)
(* Claims about self-loops (checked under SpecMeasure)                     *)
(***************************************************************************)
\* the positions of the call's edges that join a known vertex to itself
SelfLoopIdx == {k \in ResolvedIdx : mEdges[k].source = mEdges[k].target}

\* the pairs of edge positions that could be counted were self-loops never
\* counted: all four endpoints resolve and neither edge is a self-loop
ProperPairs == {q \in ResolvedPairs : q[1] \notin SelfLoopIdx /\ q[2] \notin SelfLoopIdx}

\* C22: a self-loop on a known vertex is never counted as crossing another
\* edge by calculateEdgeCrossings; in calculateAverageDistance it adds a
\* distance of 0 to the sum and still counts as one edge of the denominator.
C22_SelfLoop ==
  /\ mpc = "returned" =>
       /\ crossings <= Cardinality(ProperPairs)
       /\ (Len(mEdges) = 2 /\ SelfLoopIdx # {}) => crossings = 0
  /\ (mpc = "averaged" /\ SelfLoopIdx # {}) =>
       /\ mret.k = "mean"
       /\ mret.edgeCount = Cardinality(ResolvedIdx)
       /\ Len(mret.radicands) = Cardinality(ResolvedIdx)
       /\ \A j \in 1..Cardinality(ResolvedIdx) :
            NthOf(ResolvedIdx, j) \in SelfLoopIdx => mret.radicands[j] = Zero

\* C22 witness: calculateAverageDistance was called on a self-loop and an
\* edge of positive length: the sum has a 0 first and the count is 2
C22_Witness ==
  /\ mpc = "averaged"
  /\ Len(mEdges) = 2
  /\ SelfLoopIdx = {1}
  /\ ResolvedIdx = {1, 2}
  /\ mret.edgeCount = 2
  /\ mret.radicands[1] = Zero
  /\ mret.radicands[2].v > 0

(***************************************************************************)
(* Claims about construction (checked under SpecConstruct)                 *)
(***************************************************************************)
\* the defaults as documented
DocumentedDefaults ==
  [width |-> 800, height |-> 600, iterations |-> 300, alpha |-> "0.3",
   alphaDecay |-> "0.0228", velocityDecay |-> "0.4", chargeStrength |-> -30,
   linkDistance |-> 100, linkStrength |-> 1]

\* the fields the caller passed
PassedFields == IF passed.given THEN DOMAIN passed.fields ELSE {}

\* C23: for any subset of the fields passed to the constructor of
\* ForceDirectedLayout or of GraphOptimizer, every passed field has the
\* caller's value and every omitted field its documented default, and no
\* later operation changes the options.
C23_OptionsMerged ==
  /\ [](pc # "new" =>
          /\ DOMAIN layoutOptions = Fields
          /\ \A f \in Fields :
               layoutOptions[f] = IF f \in PassedFields THEN passed.fields[f]
                                  ELSE DocumentedDefaults[f])
  /\ [][pc # "new" => layoutOptions' = layoutOptions /\ options' = options]_vars

\* C23 witness: a GraphOptimizer constructed with width and iterations only
\* has laid out a graph with one tick; the height is the default
C23_Witness ==
  /\ pc = "done"
  /\ via = "GraphOptimizer"
  /\ PassedFields = {"width", "iterations"}
  /\ layoutOptions.width = 2
  /\ layoutOptions.iterations = 1
  /\ layoutOptions.height = 600
  /\ layoutOptions.alpha = "0.3"
  /\ ticks = 1

(***************************************************************************)
(* Claims about compareLayouts and formatResults (checked under Spec)      *)
(***************************************************************************)
\* C24 (as claimed): for a layout of fewer than two vertices, the
\* minDistanceImprovement of compareLayouts and the Change of formatResults
\* are not the NaN of Infinity - Infinity: the +Infinity of
\* calculateMinimumNodeDistance is handled before the subtraction.
C24_SentinelHandled ==
  /\ (pc = "compared" /\ Len(input.nodes) < 2)
       => comparison.value.minDistanceImprovement.k # "nan"
  /\ (pc = "formatted" /\ Len(input.nodes) < 2)
       => summary.minChange.text # "NaN"

\* C25: formatResults reports the reduction originalCrossings -
\* optimizedCrossings with a percentage: reduction / originalCrossings * 100
\* (to one decimal) when originalCrossings > 0, the literal 0 when it is 0;
\* the validation line is PASS exactly when every optimized node is in the
\* unit square.
C25_FormatResults ==
  pc = "formatted" =>
    LET m == result.metrics
    IN /\ summary.originalCrossings = m.originalCrossings
       /\ summary.optimizedCrossings = m.optimizedCrossings
       /\ summary.reduction = m.originalCrossings - m.optimizedCrossings
       /\ m.originalCrossings > 0 =>
            /\ summary.percent.text = "digits"
            /\ 2 * Abs(summary.percent.tenths * m.originalCrossings
                       - 1000 * summary.reduction) <= m.originalCrossings
       /\ m.originalCrossings = 0 =>
            (summary.percent.text = "0" /\ summary.percent.tenths = 0)
       /\ summary.validation \in {"PASS", "FAIL"}
       /\ summary.validation = "PASS" <=>
            \A k \in 1..Len(OptimizedNodes) :
              InUnit(OptimizedNodes[k].x) /\ InUnit(OptimizedNodes[k].y)

\* C25 witness: the summary of a result whose one crossing is gone: a
\* reduction of 1, 100.0 percent, PASS
C25_Witness ==
  /\ pc = "formatted"
  /\ result.metrics.originalCrossings = 1
  /\ result.metrics.optimizedCrossings = 0
  /\ summary.reduction = 1
  /\ summary.percent.tenths = 1000
  /\ summary.validation = "PASS"

\* the metrics optimizeGraph reported for the layout a caller names
CrossingsOf(which) ==
  IF which = "original" THEN result.metrics.originalCrossings
  ELSE result.metrics.optimizedCrossings
AverageOf(which) ==
  IF which = "original" THEN result.metrics.originalAverageDistance
  ELSE result.metrics.optimizedAverageDistance
MinimumOf(which) ==
  IF which = "original" THEN result.metrics.originalMinDistance
  ELSE result.metrics.optimizedMinDistance

\* every coordinate of the layout is a number
FiniteLayout(nodes) ==
  \A k \in 1..Len(nodes) : nodes[k].x.k = "fin" /\ nodes[k].y.k = "fin"

\* x - y of two distances is 0
IsZero(d) == d.k = "fin" /\ d.v = 0

C27_ViewFlagAgrees ==
  Mounted => (ui.isOptimized <=> ui.currentNodes = "optimized")

\* C28: every optimizeGraph run of DemoApp sets isLoading and clears error
\* when it starts, and ends with isLoading false; a run that ends by a throw
\* sets error to a message and leaves optimizedNodes, metrics and
\* isOptimized as they were; every run that has started ends.
C28_LoadingAndError ==
  /\ [][(app = "DemoApp" /\ runs'.started = runs.started + 1)
          => (ui'.isLoading /\ ui'.error = "null")]_vars
  /\ [][(app = "DemoApp" /\ runs'.finished = runs.finished + 1)
          => ~ui'.isLoading]_vars
  /\ [][(app = "DemoApp" /\ runs'.finished = runs.finished + 1
         /\ runs'.last = "threw")
          => /\ ui'.error # "null"
             /\ ui'.optimizedNodes = ui.optimizedNodes
             /\ ui'.metrics = ui.metrics
             /\ ui'.isOptimized = ui.isOptimized]_vars
  /\ \A n \in 1..MaxRuns :
       (app = "DemoApp" /\ runs.started >= n) ~> (runs.finished >= n)

\* C28 witness: after a run that returned, a second run of DemoApp threw:
\* the error is set, isLoading is false and the optimized nodes are kept
C28_Witness ==
  /\ app = "DemoApp"
  /\ runs.finished = 2
  /\ runs.started = 2
  /\ runs.last = "threw"
  /\ ui.error = FailedMessage
  /\ ~ui.isLoading
  /\ ui.optimizedNodes = "optimized"
  /\ ui.metrics = "metrics"

(***************************************************************************)
(* Claims about the visualizer handle (checked under SpecVisualizer)       *)
(***************************************************************************)
\* the value of an option of the visualizer a render call creates: the
\* call's, else the constructor's, else the default
OptionOf(f, callOptions) ==
  IF f \in DOMAIN callOptions THEN callOptions[f]
  ELSE IF f \in DOMAIN visualizerOptions THEN visualizerOptions[f]
  ELSE VisualizerDefaults[f]

\* C30: before any render call updateVisualization changes nothing and
\* exportVisualization returns the empty string; after render calls the
\* handle is the visualizer the most recent render created, whose options
\* are the constructor's overridden by that call's; updateVisualization
\* changes that visualizer only and exportVisualization returns its svg.
C30_VisualizerHandle ==
  /\ [](/\ Len(visualizers) = Len(renders)
        /\ visualizer = Len(renders)
        /\ \A k \in 1..Len(renders) :
             \A f \in DOMAIN VisualizerDefaults :
               visualizers[k].options[f] = OptionOf(f, renders[k]))
  /\ [](vlast.op = "export" =>
          IF renders = <<>> THEN vlast.value.text = ""
          ELSE /\ vlast.value.text = "svg"
               /\ vlast.value.of = visualizers[Len(renders)].svg)
  /\ [][vlast'.op = "update" /\ vlast'.n = vlast.n + 1 =>
          /\ renders = <<>> => visualizers' = visualizers
          /\ renders # <<>> =>
               /\ Len(visualizers') = Len(visualizers)
               /\ \A k \in 1..(Len(renders) - 1) : visualizers'[k] = visualizers[k]
               /\ visualizers'[Len(renders)].svg.drawn = vlast'.value
               /\ visualizers'[Len(renders)].options
                    = visualizers[Len(renders)].options]_vars

\* C30 witness: after two render calls an update moved the nodes of the
\* second visualizer, which has the call's width and the constructor's
\* color, and the export returned its svg; the first one is as rendered
C30_Witness ==
  /\ Len(renders) = 2
  /\ vlast.op = "export"
  /\ vlast.value.text = "svg"
  /\ vlast.value.of.drawn = "optimized"
  /\ vlast.value.of.width = 1000
  /\ vlast.value.of.fill = "red"
  /\ visualizers[1].svg.drawn = "original"
  /\ visualizers[1].svg.width = 400

(***************************************************************************)
(* Claims about rounding (checked under SpecRounding)                      *)
(***************************************************************************)
\* C29: with iterations = 0 and a positive width and height, optimizeLayout
\* returns each vertex at exactly its input position clamped to [0,1] on
\* each axis; a position inside the unit square is returned unchanged (and
\* the metrics of the returned layout are then those of the input).
\* Fails: x * width / width, rounded twice, need not be x.
C29_ZeroIterationsIdentity ==
  rpc = "returned" /\ rOpts.width > 0 /\ rOpts.height > 0 =>
    /\ rOut.id = rIn.id
    /\ rOut.x = DoubleClampUnit(rIn.x)
    /\ rOut.y = DoubleClampUnit(rIn.y)
    /\ DoubleInUnit(rIn.x) /\ DoubleInUnit(rIn.y) =>
         rOut.x = rIn.x /\ rOut.y = rIn.y

====
